---- MODULE Spec2Model ----
(***************************************************************************)
(* A model of orbit-server: the JSON:API route table built from a schema,  *)
(* the operation handlers (processRequest / processBatchRequest) and the   *)
(* SQL source they drive (SQLSource._update over SQLCache).                *)
(***************************************************************************)
EXTENDS Integers, Sequences, FiniteSets, TLC

VARIABLES
  \* --- route builder (routeHandlers / resourceRoutes) ---
  schema,      \* args.schema: the models, in the order `for (type in models)` visits them
  readonly,    \* args.readonly
  routeTable,  \* the (prefix, routes) pairs handed to the callback, in call order
  built,       \* routeHandlers has returned
  dispatched,  \* handler the registered routes select for the last HTTP request
  \* --- Server over an SQLSource ---
  db,          \* the SQL tables: db[type][id] is the row, or NoRow
  dbBefore,    \* the tables as they were when the request in progress arrived
  phase,       \* "idle", or "responded" once the handler's promise has settled
  req,         \* the request in progress
  resp,        \* [status, headers.location, body] the request was answered with
  updateCalls, \* the operation lists passed to source.update by this request, in call order
  \* --- find-many with filter and sort ---
  typed,       \* the rows of the typed_models table, in the order a select returns them
  params,      \* request.params.filter and request.params.sort of the last find-many
  answer,      \* its response, and the query expression that was handed to the source
  \* --- the error translator (onError) ---
  raised,      \* the error a handler rejected with
  cleared,     \* how source.requestQueue.clear() settled: "none" before it is called
  translated,  \* what onError returned, or that it threw
  \* --- repeated GET /{type}/:id ---
  gets,        \* the find-one requests answered since the tables last changed, with their responses
  \* --- the change feed (Server.activate / Server.deactivate) ---
  pubsub,      \* settings.pubsub is given
  activated,   \* the source's `activated` promise: "pending", "resolved" or "rejected"
  activating,  \* where Server.activate() is: "idle", "awaiting", "returned" or "rejected"
  listeners,   \* the listeners of the source's 'transform' event
  _listener,   \* this._listener is set
  deactivated, \* source.deactivate() has been invoked
  inflight,    \* the operations of the transform patched and not yet emitted
  transformLog, \* the transforms the source emitted, and whether the listener was called
  rejected,    \* the transforms whose patch failed
  published,   \* the pubsub.publish calls, in order
  \* --- GraphQL requests and their relationship loaders ---
  requests,    \* each GraphQL request: where its execution is, its context object, its selection
  loaders,     \* the DataLoaders created, in order of creation: context, namespace, cache, queue
  waiting,     \* the relationship fields waiting for the promise load(parent) returned
  queries,     \* the source.query calls, in order
  batches,     \* the calls of a loader's batch function: the keys given, the queries issued
  used,        \* which loader resolved a field of which request
  \* --- the join table of article.tags / tag.articles ---
  joins,       \* the rows of the table articles_tags
  joinsBefore, \* its rows before the last relationship write
  wrote,       \* the last relationship write on an article or a tag
  \* --- repeated calls of Server.activate ---
  activates,   \* the position of every call of activate(), in call order
  \* --- the connection of the SQL cache ---
  _db,         \* SQLCache._db: the connection the cache keeps
  connections, \* every connection made, in order: its state, its tables
  calls        \* the calls made on the cache, in order: their position

routeVars == <<schema, routeTable, built, dispatched>>

serverVars == <<db, dbBefore, phase, req, resp, updateCalls>>

queryVars == <<typed, params, answer>>

vars == <<schema, readonly, routeTable, built, dispatched,
          db, dbBefore, phase, req, resp, updateCalls,
          typed, params, answer, raised, cleared, translated, gets,
          pubsub, activated, activating, listeners, _listener, deactivated,
          inflight, transformLog, rejected, published,
          requests, loaders, waiting, queries, batches, used,
          joins, joinsBefore, wrote, activates, _db, connections, calls>>

errorVars == <<raised, cleared, translated>>

feedVars == <<pubsub, activated, activating, listeners, _listener, deactivated,
              inflight, transformLog, rejected, published>>

loaderVars == <<requests, loaders, waiting, queries, batches, used>>

linkVars == <<joins, joinsBefore, wrote>>

connVars == <<_db, connections, calls>>

otherVars == <<loaderVars, linkVars, activates, connVars>>

(***************************************************************************)
(*            Records, operations and the SQL tables                       *)
(***************************************************************************)

\* Ids of the model are 1..MaxId; 0 stands for SQL NULL / a JS null id.
MaxId == 2
Ids == 1..MaxId
NullId == 0

\* The models of the test schema whose tables the store holds, and a type
\* that has no model (hence no table).
SchemaTypes == {"planet", "moon"}
UnknownType == "ghost"

\* Values of the attribute `name`; NullName is SQL NULL, AbsentName a
\* property that is undefined.
Names == {"Earth", "Mars"}
NullName == "<null>"
AbsentName == "<undefined>"

Identity(type, id) == [type |-> type, id |-> id]
NullIdentity == Identity("<null>", NullId)        \* relationship data: null
AbsentRel == Identity("<undefined>", NullId)      \* relationship key absent

\* A record {type, id, attributes: {name}, relationships: {planet, moons}}.
\* `planet` is the hasOne of moon, `moons` the hasMany of planet.
Rec(type, id, name, planet, hasMoons, moons) ==
  [type |-> type, id |-> id, name |-> name, planet |-> planet,
   hasMoons |-> hasMoons, moons |-> moons]

IdentityRec(type, id) == Rec(type, id, AbsentName, AbsentRel, FALSE, <<>>)
NoRecord == IdentityRec("<undefined>", NullId)    \* undefined
NullRecord == IdentityRec("<null>", NullId)       \* null
isNone(record) == record = NoRecord \/ record = NullRecord

\* params.relationship / operation.relationship of a request or operation
\* that names no relationship.
NoRelationship == "-"

\* Relationship definitions of the test schema.
RelationshipDependent(type, relationship) ==
  IF type = "planet" /\ relationship = "moons" THEN "remove" ELSE "none"
RelationshipKind(type, relationship) ==
  IF type = "planet" /\ relationship = "moons" THEN "hasMany" ELSE "hasOne"
RelationshipModel(type, relationship) ==
  IF type = "planet" THEN "moon" ELSE "planet"
RelationshipInverse(type, relationship) ==
  IF type = "planet" THEN "planet" ELSE "moons"

\* A table row; NoRow marks an id with no row.
Row(name, planet_id) == [name |-> name, planet_id |-> planet_id]
NoRow == Row("<norow>", NullId)

InitDB == [t \in SchemaTypes |-> [i \in Ids |-> NoRow]]

hasTable(type) == type \in SchemaTypes

rowOf(d, identity) ==
  IF hasTable(identity.type) /\ identity.id \in Ids
  THEN d[identity.type][identity.id] ELSE NoRow

\* queryResultToRecord: attributes that are not NULL, and for every hasOne
\* relationship an identity built from the foreign key column.
queryResultToRecord(type, id, row) ==
  Rec(type, id,
      IF row.name # NullName THEN row.name ELSE AbsentName,
      IF type = "moon" THEN Identity("planet", row.planet_id) ELSE AbsentRel,
      FALSE, <<>>)

\* postProcessResponse: the row found becomes a record, no row is undefined.
postProcessResponse(type, id, row) ==
  IF row # NoRow THEN queryResultToRecord(type, id, row) ELSE NoRecord

\* SQLCache.getRecordAsync
getRecordAsync(d, identity) ==
  postProcessResponse(identity.type, identity.id, rowOf(d, identity))

\* SQLCache.toProperties: the columns a record sets.
toProperties(record) ==
  [hasName |-> record.name # AbsentName,
   name |-> record.name,
   hasFk |-> record.type = "moon" /\ record.planet # AbsentRel,
   fk |-> IF record.planet = NullIdentity THEN NullId ELSE record.planet.id]

\* The row an update of `old` with the properties p leaves.
updatedRow(old, p) ==
  Row(IF p.hasName THEN p.name ELSE old.name,
      IF p.hasFk THEN p.fk ELSE old.planet_id)

\* The row an insert of the properties p creates: unset columns are NULL.
insertedRow(p) ==
  Row(IF p.hasName THEN p.name ELSE NullName,
      IF p.hasFk THEN p.fk ELSE NullId)

\* if (row with this id exists) update(...) else insert(...)
writeRow(old, p) ==
  IF old # NoRow THEN updatedRow(old, p) ELSE insertedRow(p)

\* SQLCache.setRecordAsync
setRecordAsync(d, record) ==
  [d EXCEPT ![record.type][record.id] =
     writeRow(d[record.type][record.id], toProperties(record))]

\* A removeRecordsAsync that reads the records and deletes nothing.
removeRecordsAsync_NoDelete(d, identity) == d

\* SQLCache.removeRecordsAsync: the rows of the identities are deleted.
removeRecordsAsync(d, identity) ==
  [d EXCEPT ![identity.type][identity.id] = NoRow]

\* SQLCache.removeRecordAsync: the record as read before its row is deleted.
removeRecordAsync(d, identity) ==
  [db |-> removeRecordsAsync(d, identity), data |-> getRecordAsync(d, identity)]

orNull(record) == IF record = NoRecord THEN NullRecord ELSE record

joinedRecord(d, type, row) ==
  IF row = NoRow THEN NullRecord
  ELSE orNull(getRecordAsync(d, Identity(type, row.planet_id)))

\* SQLCache.getRelatedRecordAsync (hasOne): the target joined through the
\* foreign key, null when the join finds nothing.
getRelatedRecordAsync(d, identity, relationship) ==
  joinedRecord(d, RelationshipModel(identity.type, relationship), rowOf(d, identity))

RECURSIVE relatedFrom(_, _, _, _)
relatedFrom(d, type, fk, i) ==
  IF i > MaxId THEN <<>>
  ELSE (IF d[type][i] # NoRow /\ d[type][i].planet_id = fk
        THEN <<queryResultToRecord(type, i, d[type][i])>> ELSE <<>>)
       \o relatedFrom(d, type, fk, i + 1)

\* SQLCache.getRelatedRecordsAsync (hasMany whose inverse is a hasOne): the
\* rows of the target table whose foreign key is the identity's id.
getRelatedRecordsAsync(d, identity, relationship) ==
  relatedFrom(d, RelationshipModel(identity.type, relationship), identity.id, 1)

\* SQLCache.getRecordsAsync(type)
RECURSIVE recordsFrom(_, _, _)
recordsFrom(d, type, i) ==
  IF i > MaxId THEN <<>>
  ELSE (IF d[type][i] # NoRow THEN <<queryResultToRecord(type, i, d[type][i])>> ELSE <<>>)
       \o recordsFrom(d, type, i + 1)

getRecordsAsync(d, type) == recordsFrom(d, type, 1)

identityOf(record) == Identity(record.type, record.id)

recordsInclude(records, identity) ==
  \E k \in 1..Len(records) : identityOf(records[k]) = identity

\* equalRecordIdentities: both none, or the same type and id.
equalRecordIdentities(a, b) ==
  \/ (a \in {NullIdentity, AbsentRel, identityOf(NoRecord)}
      /\ b \in {NullIdentity, AbsentRel, identityOf(NoRecord)})
  \/ (a = b /\ a.id # NullId)

(***************************************************************************)
(*     The record cache pipeline SQLSource._update hands operations to     *)
(***************************************************************************)

Op(op, record, relationship, relatedRecord, relatedRecords) ==
  [op |-> op, record |-> record, relationship |-> relationship,
   relatedRecord |-> relatedRecord, relatedRecords |-> relatedRecords]

NoError == "none"

hasModel(type) == type \in SchemaTypes

\* Validation of an operation before it is applied: the record's type and
\* the types of the related identities must be models of the schema.
validate(o) ==
  /\ hasModel(o.record.type)
  /\ (o.op \in {"addToRelatedRecords", "removeFromRelatedRecords"}
        => hasModel(o.relatedRecord.type))
  /\ (o.op = "replaceRelatedRecord"
        => (o.relatedRecord = NullIdentity \/ hasModel(o.relatedRecord.type)))
  /\ (o.op = "replaceRelatedRecords"
        => \A k \in 1..Len(o.relatedRecords) : hasModel(o.relatedRecords[k].type))

RECURSIVE identitiesOf(_)
identitiesOf(records) ==
  IF records = <<>> THEN <<>>
  ELSE <<identityOf(Head(records))>> \o identitiesOf(Tail(records))

IdentitySet(identities) == {identities[k] : k \in 1..Len(identities)}

nullableIdentity(record) ==
  IF record = NullRecord THEN NullIdentity ELSE identityOf(record)

relatedIdentity(d, o) ==
  nullableIdentity(getRelatedRecordAsync(d, identityOf(o.record), o.relationship))

relatedIdentities(d, o) ==
  identitiesOf(getRelatedRecordsAsync(d, identityOf(o.record), o.relationship))

\* An update changes something if the record is not stored or a submitted
\* attribute or relationship differs from the stored one (a stored record
\* carries no hasMany relationship, so a submitted one always differs).
updateChanges(current, record) ==
  \/ current = NoRecord
  \/ (record.name # AbsentName /\ record.name # current.name)
  \/ (record.planet # AbsentRel /\ record.planet # current.planet)
  \/ record.hasMoons

\* Whether the operation changes anything, as decided from the cache before
\* it is applied; an operation that changes nothing is skipped.
hasInverse(d, o) ==
  CASE o.op = "addRecord" -> TRUE
    [] o.op = "updateRecord" ->
         updateChanges(getRecordAsync(d, identityOf(o.record)), o.record)
    [] o.op = "removeRecord" -> getRecordAsync(d, identityOf(o.record)) # NoRecord
    [] o.op = "addToRelatedRecords" ->
         o.relatedRecord \notin IdentitySet(relatedIdentities(d, o))
    [] o.op = "removeFromRelatedRecords" ->
         o.relatedRecord \in IdentitySet(relatedIdentities(d, o))
    [] o.op = "replaceRelatedRecord" ->
         ~equalRecordIdentities(relatedIdentity(d, o), o.relatedRecord)
    [] o.op = "replaceRelatedRecords" ->
         IdentitySet(relatedIdentities(d, o)) # IdentitySet(o.relatedRecords)
    [] OTHER -> FALSE

\* The operation that adds / removes `relatedRecord` on the inverse side.
addRelationshipOp(record, relationship, relatedRecord) ==
  IF RelationshipKind(record.type, relationship) = "hasMany"
  THEN Op("addToRelatedRecords", IdentityRec(record.type, record.id), relationship, relatedRecord, <<>>)
  ELSE Op("replaceRelatedRecord", IdentityRec(record.type, record.id), relationship, relatedRecord, <<>>)

removeRelationshipOp(record, relationship, relatedRecord) ==
  IF RelationshipKind(record.type, relationship) = "hasMany"
  THEN Op("removeFromRelatedRecords", IdentityRec(record.type, record.id), relationship, relatedRecord, <<>>)
  ELSE Op("replaceRelatedRecord", IdentityRec(record.type, record.id), relationship, NullIdentity, <<>>)

inverseOf(o) == RelationshipInverse(o.record.type, o.relationship)

\* Removing related records from a relationship declared dependent: 'remove'
\* removes the records themselves.
removeRelatedRecordOp(o, identity) ==
  IF RelationshipDependent(o.record.type, o.relationship) = "remove"
  THEN Op("removeRecord", IdentityRec(identity.type, identity.id), NoRelationship,
          NullIdentity, <<>>)
  ELSE removeRelationshipOp(identity, inverseOf(o), identityOf(o.record))

RECURSIVE relationshipOps(_, _, _, _)
relationshipOps(adding, identities, o, exclude) ==
  IF identities = <<>> THEN <<>>
  ELSE (IF Head(identities) \in exclude THEN <<>>
        ELSE IF adding
             THEN <<addRelationshipOp(Head(identities), inverseOf(o), identityOf(o.record))>>
             ELSE <<removeRelatedRecordOp(o, Head(identities))>>)
       \o relationshipOps(adding, Tail(identities), o, exclude)

relatedRecordReplaced(o, current) ==
  IF equalRecordIdentities(o.relatedRecord, current) THEN <<>>
  ELSE (IF current # NullIdentity
        THEN <<removeRelationshipOp(current, inverseOf(o), identityOf(o.record))>> ELSE <<>>)
       \o (IF o.relatedRecord # NullIdentity
           THEN <<addRelationshipOp(o.relatedRecord, inverseOf(o), identityOf(o.record))>>
           ELSE <<>>)

relatedRecordsReplaced(o, currents) ==
  relationshipOps(FALSE, currents, o, IdentitySet(o.relatedRecords))
  \o relationshipOps(TRUE, o.relatedRecords, o, IdentitySet(currents))

recordRemoved(stored) ==
  IF stored # NoRecord /\ stored.planet # AbsentRel
  THEN <<removeRelationshipOp(stored.planet, "moons", identityOf(stored))>>
  ELSE <<>>

\* The record's relationships read as replace operations on the record.
manyOf(record) ==
  Op("replaceRelatedRecords", IdentityRec(record.type, record.id), "moons",
     NullIdentity, record.moons)

oneOf(record) ==
  Op("replaceRelatedRecord", IdentityRec(record.type, record.id), "planet",
     record.planet, <<>>)

\* A record added: every related record it names gets the inverse added.
recordAdded(record) ==
  (IF record.hasMoons
   THEN relationshipOps(TRUE, record.moons, manyOf(record), {}) ELSE <<>>)
  \o (IF record.planet \notin {AbsentRel, NullIdentity}
      THEN <<addRelationshipOp(record.planet, "moons", identityOf(record))>> ELSE <<>>)

\* An update whose relationships are not followed to the related records.
recordUpdated_NoRelationships(d, record) == <<>>

\* A record updated: every relationship the update carries is replaced.
recordUpdated(d, record) ==
  (IF record.hasMoons
   THEN relatedRecordsReplaced(manyOf(record), relatedIdentities(d, manyOf(record)))
   ELSE <<>>)
  \o (IF record.planet # AbsentRel
      THEN relatedRecordReplaced(oneOf(record), relatedIdentity(d, oneOf(record)))
      ELSE <<>>)

\* Consistency operations that leave the inverse relationship alone.
afterOps_NoInverse(d, o) == <<>>

\* The operations that keep the inverse relationship consistent; they are
\* computed before the operation is applied and applied after it.
afterOps(d, o) ==
  CASE o.op = "addToRelatedRecords" ->
         <<addRelationshipOp(o.relatedRecord, inverseOf(o), identityOf(o.record))>>
    [] o.op = "removeFromRelatedRecords" ->
         <<removeRelationshipOp(o.relatedRecord, inverseOf(o), identityOf(o.record))>>
    [] o.op = "replaceRelatedRecord" -> relatedRecordReplaced(o, relatedIdentity(d, o))
    [] o.op = "replaceRelatedRecords" -> relatedRecordsReplaced(o, relatedIdentities(d, o))
    [] o.op = "removeRecord" -> recordRemoved(getRecordAsync(d, identityOf(o.record)))
    [] o.op = "addRecord" -> recordAdded(o.record)
    [] o.op = "updateRecord" -> recordUpdated(d, o.record)
    [] OTHER -> <<>>

\* mergeRecords(current, changes): the members of `changes` win.
mergeRecords(current, changes) ==
  IF current = NoRecord THEN changes
  ELSE Rec(changes.type, changes.id,
           IF changes.name # AbsentName THEN changes.name ELSE current.name,
           IF changes.planet # AbsentRel THEN changes.planet ELSE current.planet,
           changes.hasMoons \/ current.hasMoons,
           IF changes.hasMoons THEN changes.moons ELSE current.moons)

orIdentity(current, record) ==
  IF current # NoRecord THEN current ELSE IdentityRec(record.type, record.id)

\* The stored record, or its bare identity when it is not stored.
currentOrIdentity(d, record) == orIdentity(getRecordAsync(d, identityOf(record)), record)

withMany(record, identities) == [record EXCEPT !.hasMoons = TRUE, !.moons = identities]

withOne(record, identity) == [record EXCEPT !.planet = identity]

without(identities, identity) == SelectSeq(identities, LAMBDA r : r # identity)

\* await cache.setRecordAsync(record); return record
setAndReturn(d, record) == [db |-> setRecordAsync(d, record), data |-> record]

removedFrom(d, o, current) ==
  IF current # NoRecord
  THEN setAndReturn(d, withMany(current, without(relatedIdentities(d, o), o.relatedRecord)))
  ELSE [db |-> d, data |-> NullRecord]

\* The patch operators: what applying one operation does to the cache and
\* the record it returns.
patchOperator(d, o) ==
  CASE o.op = "addRecord" -> setAndReturn(d, o.record)
    [] o.op = "updateRecord" ->
         setAndReturn(d, mergeRecords(getRecordAsync(d, identityOf(o.record)), o.record))
    [] o.op = "removeRecord" -> removeRecordAsync(d, identityOf(o.record))
    [] o.op = "addToRelatedRecords" ->
         setAndReturn(d, withMany(currentOrIdentity(d, o.record),
                                  relatedIdentities(d, o) \o <<o.relatedRecord>>))
    [] o.op = "removeFromRelatedRecords" ->
         removedFrom(d, o, getRecordAsync(d, identityOf(o.record)))
    [] o.op = "replaceRelatedRecord" ->
         setAndReturn(d, withOne(currentOrIdentity(d, o.record), o.relatedRecord))
    [] OTHER ->
         setAndReturn(d, withMany(currentOrIdentity(d, o.record), o.relatedRecords))

PatchResult(d, data, error) == [db |-> d, data |-> data, error |-> error]

RECURSIVE applyPatchOperation(_, _, _)
RECURSIVE applyPatchOperations(_, _, _)

\* The prepared operations run on the cache the operation left; only a
\* primary operation contributes its record to the results.
afterPatch(done, prepared, primary, rest) ==
  PatchResult(rest.db, IF primary THEN <<done.data>> ELSE <<>>, rest.error)

patchAndAfter(done, prepared, primary) ==
  afterPatch(done, prepared, primary, applyPatchOperations(done.db, prepared, FALSE))

\* One operation: validate, skip it if it changes nothing, otherwise prepare
\* the consistency operations, apply the operation, then apply the prepared
\* operations.
applyPatchOperation(d, o, primary) ==
  IF ~validate(o) THEN PatchResult(d, <<>>, "SchemaError")
  ELSE IF ~hasInverse(d, o)
  THEN PatchResult(d, IF primary THEN <<NullRecord>> ELSE <<>>, NoError)
  ELSE patchAndAfter(patchOperator(d, o), afterOps(d, o), primary)

resultsAfter(first, rest) ==
  PatchResult(rest.db, first.data \o rest.data, rest.error)

\* The first error ends the patch; what was applied stays applied.
nextPatchOperations(first, ops, primary) ==
  IF first.error # NoError THEN first
  ELSE resultsAfter(first, applyPatchOperations(first.db, ops, primary))

\* The operations one after the other, each on the cache the previous one
\* left.
applyPatchOperations(d, ops, primary) ==
  IF ops = <<>> THEN PatchResult(d, <<>>, NoError)
  ELSE nextPatchOperations(applyPatchOperation(d, Head(ops), primary), Tail(ops), primary)

\* AsyncRecordCache.patch
patch(d, ops) == applyPatchOperations(d, ops, TRUE)

(***************************************************************************)
(*                         Route table                                     *)
(***************************************************************************)

\* Model types and relationship properties the schemas are drawn from.
RouteTypes == {"planet", "typedModel"}
RouteProps == {"moons", "bestFriend"}
Kinds == {"hasMany", "hasOne"}

HttpMethods == {"GET", "POST", "PATCH", "DELETE"}

\* The relationships of one model, in declaration order, one per property.
RelSeqs ==
  { s \in UNION { [1..n -> [property : RouteProps, kind : Kinds]]
                  : n \in 0..Cardinality(RouteProps) }
      : \A i, j \in 1..Len(s) : i # j => s[i].property # s[j].property }

\* The schemas: models in insertion order, one per type.
Schemas ==
  { s \in UNION { [1..n -> [type : RouteTypes, relationships : RelSeqs]]
                  : n \in 0..Cardinality(RouteTypes) }
      : \A i, j \in 1..Len(s) : i # j => s[i].type # s[j].type }

\* @orbit/utils dasherize on the names used here.
dasherize(word) ==
  CASE word = "typedModel"  -> "typed-model"
    [] word = "typedModels" -> "typed-models"
    [] word = "bestFriend"  -> "best-friend"
    [] OTHER                -> word

\* Schema.pluralize: the default inflection appends "s".
pluralize(word) == word \o "s"

\* JSONAPISerializer.resourceType(type)
resourceType(type) == dasherize(pluralize(type))

\* JSONAPISerializer.resourceRelationship(type, property)
resourceRelationship(type, property) == dasherize(property)

Route(method, url, type, relationship, handler) ==
  [method |-> method, url |-> url,
   params |-> [type |-> type, relationship |-> relationship],
   handler |-> handler]

\* A slip that gives every relationship the hasMany routes.
relationshipRoutes_KindIgnored(args, type, rel) ==
  LET property == rel.property
      url == "/:id/relationships/" \o resourceRelationship(type, property)
  IN <<Route("GET", "/:id/" \o property, type, property, "handleFindRelatedRecords")>>
     \o (IF ~args.readonly
         THEN << Route("POST", url, type, property, "handleAddToRelatedRecords"),
                 Route("DELETE", url, type, property, "handleRemoveFromRelatedRecords"),
                 Route("PATCH", url, type, property, "handleReplaceRelatedRecords") >>
         ELSE <<>>)

\* The routes one relationship adds (the body of the eachRelationship callback).
relationshipRoutes(args, type, rel) ==
  LET property == rel.property
      url == "/:id/relationships/" \o resourceRelationship(type, property)
  IN IF rel.kind = "hasMany"
     THEN <<Route("GET", "/:id/" \o property, type, property, "handleFindRelatedRecords")>>
          \o (IF ~args.readonly
              THEN << Route("POST", url, type, property, "handleAddToRelatedRecords"),
                      Route("DELETE", url, type, property, "handleRemoveFromRelatedRecords"),
                      Route("PATCH", url, type, property, "handleReplaceRelatedRecords") >>
              ELSE <<>>)
     ELSE <<Route("GET", "/:id/" \o property, type, property, "handleFindRelatedRecord")>>
          \o (IF ~args.readonly
              THEN <<Route("PATCH", url, type, property, "handleReplaceRelatedRecord")>>
              ELSE <<>>)

RECURSIVE eachRelationshipRoutes(_, _, _)
eachRelationshipRoutes(args, type, rels) ==
  IF rels = <<>> THEN <<>>
  ELSE relationshipRoutes(args, type, Head(rels))
       \o eachRelationshipRoutes(args, type, Tail(rels))

ModelOf(sch, type) == sch[CHOOSE i \in 1..Len(sch) : sch[i].type = type]

\* resourceRoutes(args, type)
resourceRoutes(args, type) ==
  << Route("GET", "/", type, NoRelationship, "handleFindRecords"),
     Route("GET", "/:id", type, NoRelationship, "handleFindRecord") >>
  \o (IF ~args.readonly
      THEN << Route("PATCH", "/:id", type, NoRelationship, "handleUpdateRecord"),
              Route("DELETE", "/:id", type, NoRelationship, "handleRemoveRecord"),
              Route("POST", "/", type, NoRelationship, "handleAddRecord") >>
      ELSE <<>>)
  \o eachRelationshipRoutes(args, type, ModelOf(args.schema, type).relationships)

RECURSIVE resourceCallbacks(_, _)
resourceCallbacks(args, models) ==
  IF models = <<>> THEN <<>>
  ELSE << [prefix |-> resourceType(Head(models).type),
           routes |-> resourceRoutes(args, Head(models).type)] >>
       \o resourceCallbacks(args, Tail(models))

\* A slip that registers the batch route whatever args.readonly says.
routeHandlers_AlwaysOperations(args) ==
  resourceCallbacks(args, args.schema)
  \o << [prefix |-> "/operations",
         routes |-> <<Route("PATCH", "/", "operations", NoRelationship,
                            "handleOperations")>>] >>

\* routeHandlers(args, callback): the callback invocations, in order.
routeHandlers(args) ==
  resourceCallbacks(args, args.schema)
  \o (IF ~args.readonly
      THEN << [prefix |-> "/operations",
               routes |-> <<Route("PATCH", "/", "operations", NoRelationship,
                                  "handleOperations")>>] >>
      ELSE <<>>)

\* The flat list of (prefix, route) registrations of a table.
RECURSIVE Registrations(_)
Registrations(table) ==
  IF table = <<>> THEN <<>>
  ELSE [i \in 1..Len(Head(table).routes) |->
          [prefix |-> Head(table).prefix, route |-> Head(table).routes[i]]]
       \o Registrations(Tail(table))

GetRegistrations(table) ==
  LET IsGet(r) == r.route.method = "GET" IN SelectSeq(Registrations(table), IsGet)

RequestUrls ==
  {"/", "/:id"}
  \cup {"/:id/" \o p : p \in RouteProps}
  \cup {"/:id/relationships/" \o resourceRelationship("planet", p) : p \in RouteProps}

RequestPrefixes == {resourceType(t) : t \in RouteTypes} \cup {"/operations"}

NotFound404 == "404"

\* The handler the registered routes select for (method, prefix, url).
lookupRoute(table, method, prefix, url) ==
  LET regs == Registrations(table)
      hits == { i \in 1..Len(regs) :
                  /\ regs[i].prefix = prefix
                  /\ regs[i].route.method = method
                  /\ regs[i].route.url = url }
  IN IF hits = {} THEN NotFound404
     ELSE regs[CHOOSE i \in hits : \A j \in hits : i <= j].route.handler

(***************************************************************************)
(*          Requests, the serializer and the operation handlers            *)
(***************************************************************************)

\* Longest identity list of a relationship document, longest operation list
\* of a batch document.
MaxIdentities == 2
MaxOps == 2

singularize(word) ==
  CASE word = "planets" -> "planet"
    [] word = "moons" -> "moon"
    [] word = "ghosts" -> "ghost"
    [] OTHER -> word

camelize(word) ==
  CASE word = "typed-model" -> "typedModel"
    [] word = "some-text" -> "someText"
    [] word = "some-number" -> "someNumber"
    [] word = "created-at" -> "createdAt"
    [] OTHER -> word

\* JSONAPISerializer.recordType / resourceType convert between the resource
\* type of a document ("planets") and the record type of the schema ("planet").
recordType(type) == camelize(singularize(type))

serializeIdentity(identity) ==
  IF identity \in {NullIdentity, AbsentRel} THEN identity
  ELSE Identity(resourceType(identity.type), identity.id)

deserializeIdentity(identity) ==
  IF identity \in {NullIdentity, AbsentRel} THEN identity
  ELSE Identity(recordType(identity.type), identity.id)

RECURSIVE serializeIdentities(_)
serializeIdentities(identities) ==
  IF identities = <<>> THEN <<>>
  ELSE <<serializeIdentity(Head(identities))>> \o serializeIdentities(Tail(identities))

RECURSIVE deserializeIdentities(_)
deserializeIdentities(identities) ==
  IF identities = <<>> THEN <<>>
  ELSE <<deserializeIdentity(Head(identities))>> \o deserializeIdentities(Tail(identities))

\* serializer.serialize({ data: record }) for a record; null stays null.
serializeRecord(record) ==
  IF isNone(record) THEN record
  ELSE Rec(resourceType(record.type), record.id, record.name,
           serializeIdentity(record.planet), record.hasMoons,
           serializeIdentities(record.moons))

RECURSIVE serializeRecords(_)
serializeRecords(records) ==
  IF records = <<>> THEN <<>>
  ELSE <<serializeRecord(Head(records))>> \o serializeRecords(Tail(records))

\* serializer.deserialize(document).data for a resource: a resource without
\* an id is given a generated one.
deserializeResource(resource, generated) ==
  Rec(recordType(resource.type),
      IF resource.id = NullId THEN generated ELSE resource.id,
      resource.name, deserializeIdentity(resource.planet), resource.hasMoons,
      deserializeIdentities(resource.moons))

deserializeOperation(o) ==
  Op(o.op, deserializeResource(o.record, NullId), o.relationship,
     deserializeIdentity(o.relatedRecord), deserializeIdentities(o.relatedRecords))

RECURSIVE deserializeOperationsDocument(_)
deserializeOperationsDocument(operations) ==
  IF operations = <<>> THEN <<>>
  ELSE <<deserializeOperation(Head(operations))>>
       \o deserializeOperationsDocument(Tail(operations))

\* A request: op and ref come from the route, url from the HTTP request, the
\* document from its body (a resource, a list of identities, or operations).
Request(op, type, id, relationship, record, identities, operations) ==
  [op |-> op,
   ref |-> [type |-> type, id |-> id, relationship |-> relationship],
   url |-> IF op = "none" THEN ""
           ELSE IF op = "batch" THEN "/operations"
           ELSE IF id = NullId THEN "/" \o resourceType(type)
           ELSE "/" \o resourceType(type) \o "/" \o ToString(id),
   record |-> record, identities |-> identities, operations |-> operations]

NoRequest == Request("none", "-", NullId, NoRelationship, NoRecord, <<>>, <<>>)

Response(status, location, body, error) ==
  [status |-> status, location |-> location, body |-> body, error |-> error]

NoResponse == Response(0, "", <<>>, NoError)

Created == 201
NoContent == 204
OkStatus == 200
BadRequest == 400
NotFound == 404
InternalServerError == 500

\* An error object: its class, message and description, and the status of
\* the `response` member (NoUpstream when the object has no such member).
NoUpstream == 0
Exception(class, message, description, response) ==
  [class |-> class, message |-> message, description |-> description,
   response |-> response]

NoException == Exception("none", "", "", NoUpstream)

\* The class a class extends.
superclass(class) ==
  CASE class = "RecordNotFoundException" -> "RecordException"
    [] class = "RecordException" -> "Exception"
    [] class = "ModelNotFound" -> "SchemaError"
    [] class = "SchemaError" -> "Exception"
    [] class = "ClientError" -> "Exception"
    [] class = "ServerError" -> "Exception"
    [] class = "NetworkError" -> "Exception"
    [] class = "Exception" -> "Error"
    [] class = "TypeError" -> "Error"
    [] OTHER -> "Object"

RECURSIVE extends(_, _)
extends(class, ancestor) ==
  IF class = ancestor THEN TRUE
  ELSE IF class = "Object" THEN FALSE
  ELSE extends(superclass(class), ancestor)

\* error instanceof ancestor
instanceof(error, ancestor) == extends(error.class, ancestor)

\* An errors-document entry, and what onError settles to: the response it
\* returns, or an error of its own.
ResourceError(id, title, detail, code) ==
  [id |-> id, title |-> title, detail |-> detail, code |-> code]

Translation(threw, status, errors) ==
  [threw |-> threw, status |-> status, errors |-> errors]

NoTranslation == Translation("none", 0, <<>>)

\* let code = ...: a branch order that tests RecordException first.
errorCode_RecordExceptionFirst(error) ==
  IF instanceof(error, "SchemaError") \/ instanceof(error, "RecordException")
  THEN BadRequest
  ELSE IF instanceof(error, "RecordNotFoundException") THEN NotFound
  ELSE IF instanceof(error, "ClientError") \/ instanceof(error, "ServerError")
  THEN error.response
  ELSE InternalServerError

\* let code = Status.InternalServerError; if ... else if ... else if ...
errorCode(error) ==
  IF instanceof(error, "RecordNotFoundException") THEN NotFound
  ELSE IF instanceof(error, "ClientError") \/ instanceof(error, "ServerError")
  THEN error.response
  ELSE IF instanceof(error, "SchemaError") \/ instanceof(error, "RecordException")
  THEN BadRequest
  ELSE InternalServerError

\* let detail = ''; set to error.description in each of the three branches
errorDetail(error) ==
  IF \/ instanceof(error, "RecordNotFoundException")
     \/ instanceof(error, "ClientError") \/ instanceof(error, "ServerError")
     \/ instanceof(error, "SchemaError") \/ instanceof(error, "RecordException")
  THEN error.description ELSE ""

\* (error as any).response.status throws when the error has no `response`.
readsMissingResponse(error) ==
  /\ ~instanceof(error, "RecordNotFoundException")
  /\ (instanceof(error, "ClientError") \/ instanceof(error, "ServerError"))
  /\ error.response = NoUpstream

\* A translator that gives up with the rejection of requestQueue.clear().
translate_ClearMustSucceed(error, id, clearing) ==
  IF clearing = "rejected" THEN Translation("Error", 0, <<>>)
  ELSE IF readsMissingResponse(error) THEN Translation("TypeError", 0, <<>>)
  ELSE Translation("none", errorCode(error),
                   <<ResourceError(id, error.message, errorDetail(error), errorCode(error))>>)

\* onError after `await source.requestQueue.clear().catch(() => {})` has
\* settled either way: [code, headers, { errors: [{ id, title, detail, code }] }]
translate(error, id, clearing) ==
  IF readsMissingResponse(error) THEN Translation("TypeError", 0, <<>>)
  ELSE Translation("none", errorCode(error),
                   <<ResourceError(id, error.message, errorDetail(error), errorCode(error))>>)

\* The error object behind an error the handlers above name by its class.
thrown(error) == Exception(error, error, "", NoUpstream)

\* onError: the status an error is answered with.
onError(error) == errorCode(thrown(error))

Outcome(d, ups, response) == [db |-> d, updates |-> ups, response |-> response]

Failed(d, ups, error) == Outcome(d, ups, Response(onError(error), "", <<>>, error))

UpdateResult(result, isArray) ==
  [db |-> result.db, error |-> result.error, isArray |-> isArray, results |-> result.data]

\* SQLSource._update: the patch results, or the only result when the
\* transform holds a single operation.
sqlUpdate(d, operations) == UpdateResult(patch(d, operations), Len(operations) # 1)

\* toArray: [] for null or undefined, the array itself, or [value].
toArray(value) ==
  IF value.isArray THEN value.results
  ELSE IF isNone(value.results[1]) THEN <<>> ELSE value.results

\* return [Status.NoContent, {}, null], unless the update was rejected.
noContent(u, ups) ==
  IF u.error # NoError THEN Failed(u.db, ups, u.error)
  ELSE Outcome(u.db, ups, Response(NoContent, "", <<>>, NoError))

\* An update handler: one source.update of one operation.
updateOne(d, o) == noContent(sqlUpdate(d, <<o>>), <<<<o>>>>)

addRecordOp(request, generated) ==
  Op("addRecord", deserializeResource(request.record, generated),
     NoRelationship, NullIdentity, <<>>)

\* A created response whose Location is the request URL alone.
created_NoId(request, o, u) ==
  IF u.error # NoError THEN Failed(u.db, <<<<o>>>>, u.error)
  ELSE Outcome(u.db, <<<<o>>>>,
               Response(Created, request.url, <<serializeRecord(u.results[1])>>, NoError))

\* [Status.Created, { location: `${request.url}/${record.id}` }, serialize(record)]
created(request, o, u) ==
  IF u.error # NoError THEN Failed(u.db, <<<<o>>>>, u.error)
  ELSE IF isNone(u.results[1]) THEN Failed(u.db, <<<<o>>>>, "TypeError")
  ELSE Outcome(u.db, <<<<o>>>>,
               Response(Created, request.url \o "/" \o ToString(u.results[1].id),
                        <<serializeRecord(u.results[1])>>, NoError))

addRecord(d, request, generated) ==
  created(request, addRecordOp(request, generated),
          sqlUpdate(d, <<addRecordOp(request, generated)>>))

updateRecord(d, request) ==
  updateOne(d, Op("updateRecord", deserializeResource(request.record, NullId),
                  NoRelationship, NullIdentity, <<>>))

removeRecord(d, request) ==
  updateOne(d, Op("removeRecord", IdentityRec(request.ref.type, request.ref.id),
                  NoRelationship, NullIdentity, <<>>))

\* serializer.serialize({ data }) of a value that may be null: whether a
\* null is written as data: null or makes the serializer throw is left open.
answerRecord(d, record, nullThrows) ==
  IF isNone(record) /\ nullThrows THEN Failed(d, <<>>, "TypeError")
  ELSE Outcome(d, <<>>, Response(OkStatus, "", <<serializeRecord(record)>>, NoError))

refIdentity(request) == Identity(request.ref.type, request.ref.id)

\* The query operators reject with RecordNotFoundException when the record
\* asked for (or the owner of an empty relationship) is not stored.
foundRecord(d, record) ==
  IF record = NoRecord THEN Failed(d, <<>>, "RecordNotFoundException")
  ELSE Outcome(d, <<>>, Response(OkStatus, "", <<serializeRecord(record)>>, NoError))

findRecord(d, request) == foundRecord(d, getRecordAsync(d, refIdentity(request)))

findRecords(d, request) ==
  Outcome(d, <<>>,
          Response(OkStatus, "", serializeRecords(getRecordsAsync(d, request.ref.type)), NoError))

foundRelatedRecords(d, request, related) ==
  IF related = <<>> /\ getRecordAsync(d, refIdentity(request)) = NoRecord
  THEN Failed(d, <<>>, "RecordNotFoundException")
  ELSE Outcome(d, <<>>, Response(OkStatus, "", serializeRecords(related), NoError))

findRelatedRecords(d, request) ==
  foundRelatedRecords(d, request,
                      getRelatedRecordsAsync(d, refIdentity(request), request.ref.relationship))

foundRelatedRecord(d, request, related, nullThrows) ==
  IF related = NullRecord /\ getRecordAsync(d, refIdentity(request)) = NoRecord
  THEN Failed(d, <<>>, "RecordNotFoundException")
  ELSE answerRecord(d, related, nullThrows)

findRelatedRecord(d, request, nullThrows) ==
  foundRelatedRecord(d, request,
                     getRelatedRecordAsync(d, refIdentity(request), request.ref.relationship),
                     nullThrows)

relationshipOp(op, request, identity) ==
  Op(op, IdentityRec(request.ref.type, request.ref.id), request.ref.relationship,
     identity, <<>>)

logged(o, rest) == Outcome(rest.db, <<<<o>>>> \o rest.updates, rest.response)

RECURSIVE updateEach(_, _, _, _)
RECURSIVE updateEach_KeepGoing(_, _, _, _)

\* a rejected update ends the loop and rejects the handler
nextUpdate(o, u, op, request, identities) ==
  IF u.error # NoError THEN Failed(u.db, <<<<o>>>>, u.error)
  ELSE logged(o, updateEach(u.db, op, request, identities))

\* A loop that ignores a rejected update and goes on to the next identity.
updateEach_KeepGoing(d, op, request, identities) ==
  IF identities = <<>> THEN Outcome(d, <<>>, Response(NoContent, "", <<>>, NoError))
  ELSE logged(relationshipOp(op, request, Head(identities)),
              updateEach_KeepGoing(
                sqlUpdate(d, <<relationshipOp(op, request, Head(identities))>>).db,
                op, request, Tail(identities)))

\* for (let identity of data) { await source.update(...) }: one update per
\* identity, the next one only after the previous one resolved.
updateEach(d, op, request, identities) ==
  IF identities = <<>> THEN Outcome(d, <<>>, Response(NoContent, "", <<>>, NoError))
  ELSE nextUpdate(relationshipOp(op, request, Head(identities)),
                  sqlUpdate(d, <<relationshipOp(op, request, Head(identities))>>),
                  op, request, Tail(identities))

addToRelatedRecords(d, request) ==
  updateEach(d, "addToRelatedRecords", request, deserializeIdentities(request.identities))

removeFromRelatedRecords(d, request) ==
  updateEach(d, "removeFromRelatedRecords", request, deserializeIdentities(request.identities))

replaceRelatedRecords(d, request) ==
  updateOne(d, Op("replaceRelatedRecords", IdentityRec(request.ref.type, request.ref.id),
                  request.ref.relationship, NullIdentity,
                  deserializeIdentities(request.identities)))

replaceRelatedRecord(d, request) ==
  updateOne(d, relationshipOp("replaceRelatedRecord", request,
                              deserializeIdentity(Head(request.identities))))

processRequest(d, request, generated, nullThrows) ==
  CASE request.op = "findRecord" -> findRecord(d, request)
    [] request.op = "findRecords" -> findRecords(d, request)
    [] request.op = "findRelatedRecord" -> findRelatedRecord(d, request, nullThrows)
    [] request.op = "findRelatedRecords" -> findRelatedRecords(d, request)
    [] request.op = "addRecord" -> addRecord(d, request, generated)
    [] request.op = "updateRecord" -> updateRecord(d, request)
    [] request.op = "removeRecord" -> removeRecord(d, request)
    [] request.op = "addToRelatedRecords" -> addToRelatedRecords(d, request)
    [] request.op = "removeFromRelatedRecords" -> removeFromRelatedRecords(d, request)
    [] request.op = "replaceRelatedRecord" -> replaceRelatedRecord(d, request)
    [] request.op = "replaceRelatedRecords" -> replaceRelatedRecords(d, request)
    [] OTHER -> Failed(d, <<>>, "Error")

\* { operations: records.map(data => serializer.serialize({ data })) }
batchAnswer(d, operations, records, nullThrows) ==
  IF nullThrows /\ \E k \in 1..Len(records) : isNone(records[k])
  THEN Failed(d, <<operations>>, "TypeError")
  ELSE Outcome(d, <<operations>>,
               Response(OkStatus, "", serializeRecords(records), NoError))

batchUpdated(operations, u, nullThrows) ==
  IF u.error # NoError THEN Failed(u.db, <<operations>>, u.error)
  ELSE batchAnswer(u.db, operations, toArray(u), nullThrows)

batchOperations(operations, d, nullThrows) ==
  batchUpdated(operations, sqlUpdate(d, operations), nullThrows)

processBatchRequest(d, request, nullThrows) ==
  batchOperations(deserializeOperationsDocument(request.operations), d, nullThrows)

\* The requests the model sends.

Resource(type, id, name) == Rec(type, id, name, AbsentRel, FALSE, <<>>)

FindRequests ==
  {Request("findRecord", t, i, NoRelationship, NoRecord, <<>>, <<>>) :
     t \in SchemaTypes, i \in Ids}
  \cup {Request("findRecords", t, NullId, NoRelationship, NoRecord, <<>>, <<>>) :
          t \in SchemaTypes}
  \cup {Request("findRelatedRecord", "moon", i, "planet", NoRecord, <<>>, <<>>) : i \in Ids}
  \cup {Request("findRelatedRecords", "planet", i, "moons", NoRecord, <<>>, <<>>) : i \in Ids}

\* POST /planets, POST /moons: with or without a client-supplied id.
AddRequests ==
  {Request("addRecord", "planet", NullId, NoRelationship, Resource("planets", i, n), <<>>, <<>>) :
     i \in Ids \cup {NullId}, n \in Names}
  \cup {Request("addRecord", "moon", NullId, NoRelationship, Resource("moons", i, AbsentName), <<>>, <<>>) :
          i \in Ids \cup {NullId}}

\* PATCH /planets/:id, PATCH /moons/:id
UpdateRequests ==
  {Request("updateRecord", "planet", i, NoRelationship, Resource("planets", i, n), <<>>, <<>>) :
     i \in Ids, n \in Names \cup {AbsentName}}
  \cup {Request("updateRecord", "moon", i, NoRelationship, Resource("moons", i, AbsentName), <<>>, <<>>) :
          i \in Ids}

\* PATCH documents that carry a relationship: a moon's planet (an identity
\* or null), a planet's moons (a list, possibly empty), with or without the
\* attribute.
RelationshipUpdateRequests ==
  {Request("updateRecord", "moon", i, NoRelationship,
           Rec("moons", i, AbsentName, x, FALSE, <<>>), <<>>, <<>>) :
     i \in Ids, x \in {Identity("planets", j) : j \in Ids} \cup {NullIdentity}}
  \cup {Request("updateRecord", "planet", i, NoRelationship,
                Rec("planets", i, n, AbsentRel, TRUE, l), <<>>, <<>>) :
          i \in Ids, n \in {"Mars", AbsentName},
          l \in {<<>>} \cup {<<Identity("moons", j)>> : j \in Ids}}

RemoveRequests ==
  {Request("removeRecord", t, i, NoRelationship, NoRecord, <<>>, <<>>) :
     t \in SchemaTypes, i \in Ids}

\* The identities of a relationship document: moons, and one identity whose
\* type is no model of the schema.
MoonIdentities == {Identity("moons", i) : i \in Ids} \cup {Identity("ghosts", 1)}
PlanetIdentities ==
  {Identity("planets", i) : i \in Ids} \cup {NullIdentity, Identity("ghosts", 1)}

IdentityLists(least) == UNION {[1..n -> MoonIdentities] : n \in least..MaxIdentities}

RelationshipRequests ==
  {Request(op, "planet", i, "moons", NoRecord, l, <<>>) :
     op \in {"addToRelatedRecords", "removeFromRelatedRecords"},
     i \in Ids, l \in IdentityLists(1)}
  \cup {Request("replaceRelatedRecords", "planet", i, "moons", NoRecord, l, <<>>) :
          i \in Ids, l \in IdentityLists(0)}
  \cup {Request("replaceRelatedRecord", "moon", i, "planet", NoRecord, <<x>>, <<>>) :
          i \in Ids, x \in PlanetIdentities}

MutationOps ==
  {"addRecord", "updateRecord", "removeRecord", "addToRelatedRecords",
   "removeFromRelatedRecords", "replaceRelatedRecord", "replaceRelatedRecords"}

Requests == FindRequests \cup AddRequests \cup UpdateRequests \cup RemoveRequests
            \cup RelationshipRequests \cup RelationshipUpdateRequests

\* The operations of a batch document.
BatchOps ==
  {Op("addRecord", Resource("planets", i, "Earth"), NoRelationship, NullIdentity, <<>>) : i \in Ids}
  \cup {Op("addRecord", Resource("moons", i, AbsentName), NoRelationship, NullIdentity, <<>>) : i \in Ids}
  \cup {Op("updateRecord", Resource("planets", i, "Mars"), NoRelationship, NullIdentity, <<>>) : i \in Ids}
  \cup {Op("removeRecord", Resource(t, i, AbsentName), NoRelationship, NullIdentity, <<>>) :
          t \in {"planets", "moons"}, i \in Ids}
  \cup {Op("removeRecord", Resource("ghosts", 1, AbsentName), NoRelationship, NullIdentity, <<>>)}
  \cup {Op("addToRelatedRecords", Resource("planets", i, AbsentName), "moons", Identity("moons", j), <<>>) :
          i \in Ids, j \in Ids}
  \cup {Op("replaceRelatedRecord", Resource("moons", i, AbsentName), "planet", x, <<>>) :
          i \in Ids, x \in {Identity("planets", j) : j \in Ids} \cup {NullIdentity}}

BatchRequests ==
  {Request("batch", "operations", NullId, NoRelationship, NoRecord, <<>>, ops) :
     ops \in UNION {[1..n -> BatchOps] : n \in 1..MaxOps}}

(***************************************************************************)
(*                   Find-many with filter and sort                        *)
(***************************************************************************)

\* Most rows of the typed_models table, most keys of a filter, most keys of
\* a sort parameter.
MaxRecords == 3
MaxFilters == 2
MaxSorts == 2

\* An attribute value or a query-string value.  Text(v) is the v-th text in
\* code-unit order and the decimal text of the number v; Number(v) is the
\* number v; NoValue is undefined (a NULL column).
Value(kind, v) == [kind |-> kind, v |-> v]
NoValue == Value("undefined", 0)
Text(v) == Value("string", v)
Number(v) == Value("number", v)

\* A typedModel record: someText is declared 'string', someNumber 'number'.
TypedRecord(id, someText, someNumber) ==
  [type |-> "typedModel", id |-> id, someText |-> someText, someNumber |-> someNumber]

\* JSONAPISerializer.recordAttribute: the attribute a query key names.
recordAttribute(type, property) == camelize(property)

\* schema.hasAttribute
hasAttribute(type, attribute) ==
  \/ type = "typedModel" /\ attribute \in {"someText", "someNumber"}
  \/ type = "planet" /\ attribute \in {"name", "description", "createdAt"}
  \/ type = "moon" /\ attribute = "name"
  \/ type = "tag" /\ attribute = "name"

attributeOf(record, attribute) ==
  IF attribute \in DOMAIN record THEN record[attribute] ELSE NoValue

\* filterQBParams that keeps the keys that name no attribute.
RECURSIVE filterQBParams_KeepUnknown(_, _)
filterQBParams_KeepUnknown(type, filter) ==
  IF filter = <<>> THEN <<>>
  ELSE <<[op |-> "equal", attribute |-> recordAttribute(type, Head(filter).property),
          value |-> Head(filter).value]>>
       \o filterQBParams_KeepUnknown(type, Tail(filter))

\* filterQBParams: one 'equal' specifier per key that names an attribute,
\* carrying the value of the query string as it is.
RECURSIVE filterQBParams(_, _)
filterQBParams(type, filter) ==
  IF filter = <<>> THEN <<>>
  ELSE (IF hasAttribute(type, recordAttribute(type, Head(filter).property))
        THEN <<[op |-> "equal", attribute |-> recordAttribute(type, Head(filter).property),
                value |-> Head(filter).value]>>
        ELSE <<>>)
       \o filterQBParams(type, Tail(filter))

\* property.startsWith('-') and property.substring(1) of a sort key.
startsWithDash(property) ==
  property \in {"-some-text", "-some-number", "-foo", "-name", "-description"}

substring1(property) ==
  CASE property = "-some-text" -> "some-text"
    [] property = "-some-number" -> "some-number"
    [] property = "-foo" -> "foo"
    [] property = "-name" -> "name"
    [] property = "-description" -> "description"
    [] OTHER -> ""

sortAttribute(type, property) ==
  recordAttribute(type, IF startsWithDash(property) THEN substring1(property) ELSE property)

\* sortQBParams that orders every key ascending.
RECURSIVE sortQBParams_AlwaysAscending(_, _)
sortQBParams_AlwaysAscending(type, sort) ==
  IF sort = <<>> THEN <<>>
  ELSE (IF hasAttribute(type, sortAttribute(type, Head(sort)))
        THEN <<[attribute |-> sortAttribute(type, Head(sort)), order |-> "ascending"]>>
        ELSE <<>>)
       \o sortQBParams_AlwaysAscending(type, Tail(sort))

\* sortQBParams: one specifier per key of sort.split(',') that names an
\* attribute, in the order of the keys.
RECURSIVE sortQBParams(_, _)
sortQBParams(type, sort) ==
  IF sort = <<>> THEN <<>>
  ELSE (IF hasAttribute(type, sortAttribute(type, Head(sort)))
        THEN <<[attribute |-> sortAttribute(type, Head(sort)),
                order |-> IF startsWithDash(Head(sort)) THEN "descending" ELSE "ascending"]>>
        ELSE <<>>)
       \o sortQBParams(type, Tail(sort))

\* queryBuilderParams: the find-records expression with its filter and sort.
queryBuilderParams(type, filter, sort) ==
  [op |-> "findRecords", type |-> type,
   filter |-> filterQBParams(type, filter), sort |-> sortQBParams(type, sort)]

\* The cache's filter: an 'equal' specifier holds when the attribute is
\* strictly equal to the value (same type, same value).
applyFilter(record, specifier) ==
  /\ attributeOf(record, specifier.attribute) # NoValue
  /\ attributeOf(record, specifier.attribute) = specifier.value

filterRecords(records, specifiers) ==
  SelectSeq(records, LAMBDA r : \A k \in 1..Len(specifiers) : applyFilter(r, specifiers[k]))

comparisonOrder(specifier) == IF specifier.order = "descending" THEN -1 ELSE 1

\* The comparison of two values of one attribute: by <, then undefined last.
compareValues(a, b, order) ==
  IF a # NoValue /\ b # NoValue /\ a.v < b.v THEN -order
  ELSE IF a # NoValue /\ b # NoValue /\ a.v > b.v THEN order
  ELSE IF a = NoValue /\ b # NoValue THEN order
  ELSE IF b = NoValue /\ a # NoValue THEN -order
  ELSE 0

RECURSIVE compareRecords(_, _, _)

orNextSpecifier(c, r1, r2, specifiers) ==
  IF c # 0 THEN c ELSE compareRecords(r1, r2, specifiers)

\* The comparator of the cache's sort: the first specifier that tells the
\* records apart decides.
compareRecords(r1, r2, specifiers) ==
  IF specifiers = <<>> THEN 0
  ELSE orNextSpecifier(
         compareValues(attributeOf(r1, Head(specifiers).attribute),
                       attributeOf(r2, Head(specifiers).attribute),
                       comparisonOrder(Head(specifiers))),
         r1, r2, Tail(specifiers))

\* r placed before the first record it compares less than.
RECURSIVE inserted(_, _, _)
inserted(sorted, r, specifiers) ==
  IF sorted = <<>> THEN <<r>>
  ELSE IF compareRecords(r, Head(sorted), specifiers) < 0 THEN <<r>> \o sorted
  ELSE <<Head(sorted)>> \o inserted(Tail(sorted), r, specifiers)

RECURSIVE sortedFrom(_, _, _)
sortedFrom(sorted, records, specifiers) ==
  IF records = <<>> THEN sorted
  ELSE sortedFrom(inserted(sorted, Head(records), specifiers), Tail(records), specifiers)

\* records.sort(comparator): records that compare equal keep their order.
sortRecords(records, specifiers) == sortedFrom(<<>>, records, specifiers)

\* SQLSource._query: the cache reads the rows of the type, filters, sorts.
sqlQuery(table, expression) ==
  sortRecords(filterRecords(table, expression.filter), expression.sort)

serializeTyped(record) == [record EXCEPT !.type = resourceType(record.type)]

RECURSIVE serializeTypedRecords(_)
serializeTypedRecords(records) ==
  IF records = <<>> THEN <<>>
  ELSE <<serializeTyped(Head(records))>> \o serializeTypedRecords(Tail(records))

Answer(expression, status, data) ==
  [expression |-> expression, status |-> status, data |-> data]

answered(table, expression) ==
  Answer(expression, OkStatus, serializeTypedRecords(sqlQuery(table, expression)))

\* findRecords(request, context) for a request with filter and sort params.
findRecordsWith(table, type, filter, sort) ==
  answered(table, queryBuilderParams(type, filter, sort))

\* The rows, the query keys and the parameters the model draws from.
TextValues == {Text(1), Text(2)}
NumberValues == {Number(1), Number(2)}

TypedRows ==
  {[someText |-> t, someNumber |-> n] : t \in TextValues \cup {NoValue}, n \in NumberValues}

RECURSIVE recordsOf(_, _)
recordsOf(rows, id) ==
  IF rows = <<>> THEN <<>>
  ELSE <<TypedRecord(id, Head(rows).someText, Head(rows).someNumber)>>
       \o recordsOf(Tail(rows), id + 1)

TypedTables ==
  {recordsOf(rows, 1) : rows \in UNION {[1..n -> TypedRows] : n \in 0..MaxRecords}}

FilterKeys ==
  {[property |-> "some-text", value |-> Text(1)],
   [property |-> "some-text", value |-> Text(2)],
   [property |-> "some-number", value |-> Text(1)],
   [property |-> "foo", value |-> Text(1)]}

SortKeys == {"some-text", "-some-text", "some-number", "-some-number", "foo", "-foo"}

\* The keys of a parsed filter object are distinct.
Filters ==
  {f \in UNION {[1..n -> FilterKeys] : n \in 0..MaxFilters} :
     \A i, j \in 1..Len(f) : i # j => f[i].property # f[j].property}

Sorts == UNION {[1..n -> SortKeys] : n \in 0..MaxSorts}

Params(filter, sort) == [filter |-> filter, sort |-> sort]

NoAnswer == Answer(queryBuilderParams("-", <<>>, <<>>), 0, <<>>)

QueryIdle ==
  /\ typed = <<>>
  /\ params = Params(<<>>, <<>>)
  /\ answer = NoAnswer

ErrorIdle ==
  /\ raised = NoException
  /\ cleared = "none"
  /\ translated = NoTranslation

\* Most GraphQL requests in progress at once.
MaxRequests == 2
GraphRequests == 1..MaxRequests

\* No context object: the request has not arrived.
NoContext == 0

GraphRequest(at, context, selection) ==
  [phase |-> at, context |-> context, selection |-> selection]

LoaderIdle ==
  /\ requests = [r \in GraphRequests |-> GraphRequest("idle", NoContext, <<>>)]
  /\ loaders = <<>>
  /\ waiting = {}
  /\ queries = <<>>
  /\ batches = <<>>
  /\ used = {}

\* An operation on a hasMany relationship whose inverse is a hasMany.
JoinOp(op, record, relationship, relatedRecords) ==
  [op |-> op, record |-> record, relationship |-> relationship,
   relatedRecords |-> relatedRecords]

NoJoinOp == JoinOp("none", NullIdentity, NoRelationship, {})

LinkIdle ==
  /\ joins = {}
  /\ joinsBefore = {}
  /\ wrote = NoJoinOp

\* this._db before any connection is made: undefined.
NoConnection == 0

ConnIdle ==
  /\ _db = NoConnection
  /\ connections = <<>>
  /\ calls = <<>>

OtherIdle == LoaderIdle /\ LinkIdle /\ activates = <<>> /\ ConnIdle

FeedIdle ==
  /\ pubsub = FALSE
  /\ activated = "pending"
  /\ activating = "idle"
  /\ listeners = {}
  /\ _listener = FALSE
  /\ deactivated = FALSE
  /\ inflight = <<>>
  /\ transformLog = <<>>
  /\ rejected = <<>>
  /\ published = <<>>

\* The schema of the stored models, as the route builder sees it.
StoreSchema ==
  <<[type |-> "planet", relationships |-> <<[property |-> "moons", kind |-> "hasMany"]>>],
    [type |-> "moon", relationships |-> <<[property |-> "planet", kind |-> "hasOne"]>>]>>

\* The variables the route table and the request handlers above leave alone.
restVars == <<queryVars, errorVars, gets, feedVars, otherVars>>

ServerInit ==
  /\ db = InitDB
  /\ dbBefore = InitDB
  /\ phase = "idle"
  /\ req = NoRequest
  /\ resp = NoResponse
  /\ updateCalls = <<>>

RouteInit ==
  /\ schema \in Schemas
  /\ readonly \in BOOLEAN
  /\ routeTable = <<>>
  /\ built = FALSE
  /\ dispatched = "none"
  /\ ServerInit
  /\ QueryIdle
  /\ ErrorIdle
  /\ FeedIdle
  /\ OtherIdle
  /\ gets = <<>>

\* Server.routeHandlers -> routeHandlers(args, callback): the table is built once.
BuildRoutes ==
  /\ ~built
  /\ routeTable' = routeHandlers([schema |-> schema, readonly |-> readonly])
  /\ built' = TRUE
  /\ UNCHANGED <<schema, readonly, dispatched>>
  /\ UNCHANGED <<serverVars, restVars>>

\* An HTTP request is matched against the registered routes.
Dispatch ==
  /\ built
  /\ \E method \in HttpMethods, prefix \in RequestPrefixes, url \in RequestUrls :
       dispatched' = lookupRoute(routeTable, method, prefix, url)
  /\ UNCHANGED <<schema, readonly, routeTable, built>>
  /\ UNCHANGED <<serverVars, restVars>>

Init ==
  /\ schema = StoreSchema
  /\ readonly \in BOOLEAN
  /\ routeTable = <<>>
  /\ built = FALSE
  /\ dispatched = "none"
  /\ ServerInit
  /\ QueryIdle
  /\ ErrorIdle
  /\ FeedIdle
  /\ OtherIdle
  /\ gets = <<>>

Settle(request, outcome) ==
  /\ db' = outcome.db
  /\ dbBefore' = db
  /\ req' = request
  /\ resp' = outcome.response
  /\ updateCalls' = outcome.updates
  /\ phase' = "responded"
  /\ UNCHANGED <<readonly, routeVars, restVars>>

\* Server.processRequest(request): the handler runs to its response.  The
\* `readonly` setting of the Server is not consulted.
ProcessRequest ==
  /\ phase = "idle"
  /\ \E request \in Requests, generated \in Ids, nullThrows \in BOOLEAN :
       /\ IF request.op = "addRecord" /\ request.record.id = NullId
          THEN rowOf(db, Identity(recordType(request.record.type), generated)) = NoRow
          ELSE generated = 1
       /\ (request.op # "findRelatedRecord" => nullThrows)
       /\ Settle(request, processRequest(db, request, generated, nullThrows))

\* Server.processBatchRequest(request)
ProcessBatchRequest ==
  /\ phase = "idle"
  /\ \E request \in BatchRequests, nullThrows \in BOOLEAN :
       Settle(request, processBatchRequest(db, request, nullThrows))

\* The response is sent; the server waits for the next request.
Deliver ==
  /\ phase = "responded"
  /\ phase' = "idle"
  /\ dbBefore' = db
  /\ req' = NoRequest
  /\ resp' = NoResponse
  /\ updateCalls' = <<>>
  /\ UNCHANGED <<db, readonly, routeVars, restVars>>

Next == ProcessRequest \/ ProcessBatchRequest \/ Deliver

Spec == Init /\ [][Next]_vars

RouteNext == BuildRoutes \/ Dispatch

SpecRoutes == RouteInit /\ [][RouteNext]_vars

QueryInit ==
  /\ typed \in TypedTables
  /\ params = Params(<<>>, <<>>)
  /\ answer = NoAnswer
  /\ ErrorIdle
  /\ FeedIdle
  /\ OtherIdle
  /\ gets = <<>>
  /\ schema = StoreSchema
  /\ readonly = FALSE
  /\ routeTable = <<>>
  /\ built = FALSE
  /\ dispatched = "none"
  /\ ServerInit

\* GET /typed-models?filter[..]=..&sort=..
FindMany ==
  /\ answer = NoAnswer
  /\ \E filter \in Filters, sort \in Sorts :
       /\ params' = Params(filter, sort)
       /\ answer' = findRecordsWith(typed, "typedModel", filter, sort)
  /\ UNCHANGED <<typed, readonly, routeVars, serverVars, errorVars, gets, feedVars, otherVars>>

\* The response is sent.
FindManyDone ==
  /\ answer # NoAnswer
  /\ params' = Params(<<>>, <<>>)
  /\ answer' = NoAnswer
  /\ UNCHANGED <<typed, readonly, routeVars, serverVars, errorVars, gets, feedVars, otherVars>>

QueryNext == FindMany \/ FindManyDone

SpecQuery == QueryInit /\ [][QueryNext]_vars

(***************************************************************************)
(*              The plural GraphQL field and its where argument            *)
(***************************************************************************)

\* A key of the where object with its value; the value of a list input
\* holds every element, the value of a scalar input one.
WherePair(key, value) == [key |-> key, value |-> value]

Id(v) == Value("id", v)

hasKey(where, key) == \E k \in 1..Len(where) : where[k].key = key

valueOf(where, key) == (CHOOSE k \in 1..Len(where) : where[k].key = key)

\* const { id_in: idIn, id, ...whereOnAttributes } = where || {}
whereOnAttributes(where) ==
  SelectSeq(where, LAMBDA pair : pair.key \notin {"id", "id_in"})

\* filterQBParams of the GraphQL schema builder: a param for every key of
\* the where object that is an attribute of the type.
RECURSIVE graphFilterQBParams(_, _)
graphFilterQBParams(type, where) ==
  IF where = <<>> THEN <<>>
  ELSE (IF hasAttribute(type, Head(where).key)
        THEN <<[op |-> "equal", attribute |-> Head(where).key,
                value |-> Head(Head(where).value)]>>
        ELSE <<>>)
       \o graphFilterQBParams(type, Tail(where))

AllRecords == <<Id(0)>>

\* q.findRecords(identities) for id_in or id, q.findRecords(type) otherwise.
findRecordsTerm(where) ==
  IF hasKey(where, "id_in") THEN where[valueOf(where, "id_in")].value
  ELSE IF hasKey(where, "id") THEN where[valueOf(where, "id")].value
  ELSE AllRecords

whereFilter(type, attributes) ==
  IF attributes # <<>> THEN graphFilterQBParams(type, attributes) ELSE <<>>

\* buildFindRecordsQuery without orderBy
buildFindRecordsQuery(type, where) ==
  [op |-> "findRecords", type |-> type, records |-> findRecordsTerm(where),
   filter |-> whereFilter(type, whereOnAttributes(where)), sort |-> <<>>]

RECURSIVE recordsById(_, _)
\* SQLCache.getRecordsAsync(identities): the rows whose id is listed, in
\* the order of the identities.
recordsById(table, ids) ==
  IF ids = <<>> THEN <<>>
  ELSE SelectSeq(table, LAMBDA r : Id(r.id) = Head(ids)) \o recordsById(table, Tail(ids))

expressionRecords(table, expression) ==
  IF expression.records = AllRecords THEN table
  ELSE recordsById(table, expression.records)

\* source.query of the expression: the records of the term, filtered.
graphQuery(table, expression) ==
  filterRecords(expressionRecords(table, expression), expression.filter)

\* resolve of fields[schema.pluralize(type)]
resolveRecords(table, type, where) ==
  Answer(buildFindRecordsQuery(type, where), OkStatus,
         graphQuery(table, buildFindRecordsQuery(type, where)))

\* The where inputs the model sends: the operators of TypedModelWhereInput.
WherePairs ==
  {WherePair("someText", <<Text(1)>>),
   WherePair("someText_not", <<Text(1)>>),
   WherePair("someText_in", <<Text(1), Text(2)>>),
   WherePair("someText_not_in", <<Text(1)>>),
   WherePair("someNumber", <<Number(1)>>),
   WherePair("id", <<Id(1)>>),
   WherePair("id_in", <<Id(1), Id(2)>>)}

Wheres ==
  {w \in UNION {[1..n -> WherePairs] : n \in 0..MaxFilters} :
     \A i, j \in 1..Len(w) : i # j => w[i].key # w[j].key}

\* The ids a where object names are ids of stored records.
NamesStoredIds(table, where) ==
  \A k \in 1..Len(where) :
    where[k].key \in {"id", "id_in"} =>
      \A n \in 1..Len(where[k].value) :
        \E i \in 1..Len(table) : Id(table[i].id) = where[k].value[n]

\* { typedModels(where: {...}) { ... } }
FindWhere ==
  /\ answer = NoAnswer
  /\ \E where \in Wheres :
       /\ NamesStoredIds(typed, where)
       /\ params' = Params(where, <<>>)
       /\ answer' = resolveRecords(typed, "typedModel", where)
  /\ UNCHANGED <<typed, readonly, routeVars, serverVars, errorVars, gets, feedVars, otherVars>>

WhereNext == FindWhere \/ FindManyDone

SpecWhere == QueryInit /\ [][WhereNext]_vars

(***************************************************************************)
(*                        The error translator                             *)
(***************************************************************************)

\* Ids that source.schema.generateId() hands out.
MaxErrorId == 2
ErrorIds == 1..MaxErrorId

Messages == {"first message", "second message"}

\* Statuses of the response an upstream error carries.
UpstreamStatuses == {422, 503}

LocalClasses ==
  {"RecordNotFoundException", "RecordException", "ModelNotFound", "SchemaError",
   "NetworkError", "TypeError", "Error"}

\* The errors a request can be rejected with: errors of the source and the
\* serializer, and the ClientError / ServerError of a proxied source, whose
\* constructor takes a description only (`response` is attached afterwards,
\* by the code that throws it).
Errors ==
  {Exception(c, m, "description", NoUpstream) : c \in LocalClasses, m \in Messages}
  \cup {Exception(c, m, "description", r) :
          c \in {"ClientError", "ServerError"}, m \in Messages,
          r \in UpstreamStatuses \cup {NoUpstream}}

ErrorInit ==
  /\ ErrorIdle
  /\ FeedIdle
  /\ OtherIdle
  /\ gets = <<>>
  /\ QueryIdle
  /\ schema = StoreSchema
  /\ readonly = FALSE
  /\ routeTable = <<>>
  /\ built = FALSE
  /\ dispatched = "none"
  /\ ServerInit

\* A handler rejects; Server.onError(error) is called.
Raise ==
  /\ raised = NoException
  /\ \E error \in Errors : raised' = error
  /\ UNCHANGED <<cleared, translated, gets, queryVars, readonly, routeVars, serverVars, feedVars, otherVars>>

\* await source.requestQueue.clear().catch(() => {})
ClearQueue ==
  /\ raised # NoException
  /\ cleared = "none"
  /\ \E outcome \in {"resolved", "rejected"} : cleared' = outcome
  /\ UNCHANGED <<raised, translated, gets, queryVars, readonly, routeVars, serverVars, feedVars, otherVars>>

\* The rest of onError, with a freshly generated id.
Translate ==
  /\ cleared # "none"
  /\ translated = NoTranslation
  /\ \E id \in ErrorIds : translated' = translate(raised, id, cleared)
  /\ UNCHANGED <<raised, cleared, gets, queryVars, readonly, routeVars, serverVars, feedVars, otherVars>>

\* The response (or the translator's own error) has left the server.
ErrorAnswered ==
  /\ translated # NoTranslation
  /\ raised' = NoException
  /\ cleared' = "none"
  /\ translated' = NoTranslation
  /\ UNCHANGED <<gets, queryVars, readonly, routeVars, serverVars, feedVars, otherVars>>

ErrorNext == Raise \/ ClearQueue \/ Translate \/ ErrorAnswered

SpecErrors == ErrorInit /\ [][ErrorNext]_vars

(***************************************************************************)
(*                      Repeated GET /{type}/:id                           *)
(***************************************************************************)

\* Most find-one requests between two writes.
MaxGets == 2

\* The error the find-record query rejects with for a record not stored.
recordNotFound(type, id) ==
  Exception("RecordNotFoundException",
            "Record not found: " \o type \o ":" \o ToString(id),
            "Record not found", NoUpstream)

GetResponse(status, body, errors) == [status |-> status, body |-> body, errors |-> errors]

errorAnswer(translation) == GetResponse(translation.status, <<>>, translation.errors)

\* A rejection answered as an empty success instead of an errors document.
getAnswer_MissingIsEmpty(outcome, type, id, generated) ==
  IF outcome.response.error = NoError
  THEN GetResponse(outcome.response.status, outcome.response.body, <<>>)
  ELSE GetResponse(OkStatus, <<>>, <<>>)

\* What the client receives: the handler's response, or the errors document
\* the error handler builds from the rejection.
getAnswer(outcome, type, id, generated) ==
  IF outcome.response.error = NoError
  THEN GetResponse(outcome.response.status, outcome.response.body, <<>>)
  ELSE errorAnswer(translate(recordNotFound(type, id), generated, "resolved"))

\* GET /{type}/:id
getRecord(d, type, id, generated) ==
  getAnswer(findRecord(d, Request("findRecord", type, id, NoRelationship, NoRecord, <<>>, <<>>)),
            type, id, generated)

GetInit ==
  /\ gets = <<>>
  /\ ErrorIdle
  /\ FeedIdle
  /\ OtherIdle
  /\ QueryIdle
  /\ schema = StoreSchema
  /\ readonly = FALSE
  /\ routeTable = <<>>
  /\ built = FALSE
  /\ dispatched = "none"
  /\ ServerInit

\* A find-one request is answered.
Get ==
  /\ Len(gets) < MaxGets
  /\ \E type \in SchemaTypes, id \in Ids, generated \in ErrorIds :
       gets' = Append(gets, [type |-> type, id |-> id,
                             response |-> getRecord(db, type, id, generated)])
  /\ UNCHANGED <<errorVars, queryVars, readonly, routeVars, serverVars, feedVars, otherVars>>

\* A create, update or delete is processed: the tables change.
Write ==
  /\ \E request \in AddRequests \cup UpdateRequests \cup RemoveRequests, generated \in Ids :
       /\ (request.op = "addRecord" /\ request.record.id = NullId) =>
            rowOf(db, Identity(recordType(request.record.type), generated)) = NoRow
       /\ db' = processRequest(db, request, generated, TRUE).db
  /\ db' # db
  /\ dbBefore' = db'
  /\ gets' = <<>>
  /\ UNCHANGED <<phase, req, resp, updateCalls, errorVars, queryVars, readonly, routeVars, feedVars, otherVars>>

GetNext == Get \/ Write

SpecGet == GetInit /\ [][GetNext]_vars

(***************************************************************************)
(*            The change feed: Server.activate / Server.deactivate         *)
(***************************************************************************)

\* Most transforms the source is asked to apply.
MaxTransforms == 2

Publish(channel, operation) == [channel |-> channel, operation |-> operation]

\* The listener publishing on the bare record type.
listener_BareType(operations) ==
  [k \in 1..Len(operations) |->
     Publish(operations[k].record.type, operations[k])]

\* function listener(transform): one pubsub.publish per operation, in order.
listener(operations) ==
  [k \in 1..Len(operations) |->
     Publish("operation:" \o operations[k].record.type, operations[k])]

\* The 'transform' event: the listeners attached at that moment are called.
emit(attached, operations) ==
  IF attached = {} THEN <<>> ELSE listener(operations)

\* A shutdown that leaves the listener where it is.
detached_Kept(attached, own) == attached

\* if (this._listener) { this.source.off('transform', this._listener) }
detached(attached, own) ==
  IF own THEN attached \ {"listener"} ELSE attached

Transform(operations, heard) == [operations |-> operations, heard |-> heard]

\* The operations of the transforms the model applies.
FeedOps ==
  {o \in BatchOps : o.op \in {"addRecord", "removeRecord"}}

Transforms ==
  {deserializeOperationsDocument(ops) :
     ops \in UNION {[1..n -> FeedOps] : n \in 1..MaxOps}}

FeedInit ==
  /\ pubsub \in BOOLEAN
  /\ activated = "pending"
  /\ activating = "idle"
  /\ listeners = {}
  /\ _listener = FALSE
  /\ deactivated = FALSE
  /\ inflight = <<>>
  /\ transformLog = <<>>
  /\ rejected = <<>>
  /\ published = <<>>
  /\ OtherIdle
  /\ ErrorIdle
  /\ QueryIdle
  /\ gets = <<>>
  /\ schema = StoreSchema
  /\ readonly = FALSE
  /\ routeTable = <<>>
  /\ built = FALSE
  /\ dispatched = "none"
  /\ ServerInit

feedRest == <<readonly, routeVars, queryVars, errorVars, gets, otherVars,
              dbBefore, phase, req, resp, updateCalls>>

\* The source's activation settles.
SourceActivates ==
  /\ activated = "pending"
  /\ \E outcome \in {"resolved", "rejected"} : activated' = outcome
  /\ UNCHANGED <<pubsub, activating, listeners, _listener, deactivated,
                 inflight, transformLog, rejected, published, db, feedRest>>

\* Server.activate() is called and reaches `await this.source.activated`.
Activate ==
  /\ activating = "idle"
  /\ activating' = "awaiting"
  /\ UNCHANGED <<pubsub, activated, listeners, _listener, deactivated,
                 inflight, transformLog, rejected, published, db, feedRest>>

\* Server.activate() goes on after the await.
Activated ==
  /\ activating = "awaiting"
  /\ activated # "pending"
  /\ IF activated = "rejected"
     THEN /\ activating' = "rejected"
          /\ UNCHANGED <<listeners, _listener>>
     ELSE /\ activating' = "returned"
          /\ listeners' = IF pubsub THEN listeners \cup {"listener"} ELSE listeners
          /\ _listener' = pubsub
  /\ UNCHANGED <<pubsub, activated, deactivated,
                 inflight, transformLog, rejected, published, db, feedRest>>

\* Server.deactivate()
Deactivate ==
  /\ ~deactivated
  /\ listeners' = detached(listeners, _listener)
  /\ deactivated' = TRUE
  /\ UNCHANGED <<pubsub, activated, activating, _listener,
                 inflight, transformLog, rejected, published, db, feedRest>>

\* SQLSource._update up to `await this.cache.patch(...)`: a failed patch
\* rejects the update, and what it applied stays applied.
Update ==
  /\ activated = "resolved"
  /\ ~deactivated
  /\ inflight = <<>>
  /\ Len(transformLog) + Len(rejected) < MaxTransforms
  /\ \E operations \in Transforms :
       /\ db' = sqlUpdate(db, operations).db
       /\ IF sqlUpdate(db, operations).error # NoError
          THEN /\ rejected' = Append(rejected, operations)
               /\ UNCHANGED inflight
          ELSE /\ inflight' = operations
               /\ UNCHANGED rejected
  /\ UNCHANGED <<pubsub, activated, activating, listeners, _listener, deactivated,
                 transformLog, published, feedRest>>

\* `await this.transformed([transform])`: the transform is logged and the
\* 'transform' event is emitted.
Transformed ==
  /\ inflight # <<>>
  /\ transformLog' = Append(transformLog, Transform(inflight, listeners # {}))
  /\ published' = published \o emit(listeners, inflight)
  /\ inflight' = <<>>
  /\ UNCHANGED <<pubsub, activated, activating, listeners, _listener, deactivated,
                 rejected, db, feedRest>>

FeedNext ==
  SourceActivates \/ Activate \/ Activated \/ Deactivate \/ Update \/ Transformed

SpecFeed == FeedInit /\ [][FeedNext]_vars

(***************************************************************************)
(*              GraphQL requests and relationship loaders                  *)
(***************************************************************************)

\* capitalize (@orbit/utils), on the words the model uses.
capitalize(word) ==
  CASE word = "planet" -> "Planet"
    [] word = "moon" -> "Moon"
    [] OTHER -> word

classify(str) == capitalize(camelize(str))

\* let namespace = `${typeClassName}.${property}`
namespaceOf(type, property) == classify(type) \o "." \o property

\* serializeRecordIdentity (@orbit/data): `${type}:${id}`
serializeRecordIdentity(identity) == identity.type \o ":" \o ToString(identity.id)

Loader(context, namespace, createdBy) ==
  [context |-> context, namespace |-> namespace, createdBy |-> createdBy,
   cache |-> {}, queue |-> <<>>, loaded |-> {}]

\* dataLoaderMapFor(context).get(namespace) finds a loader.
hasLoader(ls, context, namespace) ==
  \E i \in 1..Len(ls) : ls[i].context = context /\ ls[i].namespace = namespace

dataLoaderIndex(ls, context, namespace) ==
  CHOOSE i \in 1..Len(ls) :
    /\ ls[i].context = context /\ ls[i].namespace = namespace
    /\ \A j \in 1..(i - 1) : ~(ls[j].context = context /\ ls[j].namespace = namespace)

\* getDataLoader: the loader of the context's map for the namespace, made
\* and put into the map when the map has none.
getDataLoader(ls, context, namespace, r) ==
  IF hasLoader(ls, context, namespace) THEN ls
  ELSE Append(ls, Loader(context, namespace, r))

\* A load that never finds its key in the cache.
load_NoCache(loader, key) ==
  [loader EXCEPT !.cache = @ \cup {serializeRecordIdentity(key)},
                 !.queue = Append(@, key)]

\* DataLoader.load(key): the cached promise of the key, or the key is put
\* into the queue of the next batch and its promise into the cache.
load(loader, key) ==
  IF serializeRecordIdentity(key) \in loader.cache THEN loader
  ELSE [loader EXCEPT !.cache = @ \cup {serializeRecordIdentity(key)},
                      !.queue = Append(@, key)]

\* A relationship field of `key` being resolved for a request; `rest` is the
\* selection below the field.
Field(r, loader, key, property, rest) ==
  [request |-> r, loader |-> loader, key |-> key, property |-> property, rest |-> rest]

Graph(ls, ws, us) == [loaders |-> ls, waiting |-> ws, used |-> us]

resolveWith(g, ls, i, r, parent, selection) ==
  Graph([ls EXCEPT ![i] = load(@, parent)],
        g.waiting \cup {Field(r, i, parent, Head(selection), Tail(selection))},
        g.used \cup {<<r, i>>})

resolveIn(g, ls, context, namespace, r, parent, selection) ==
  resolveWith(g, ls, dataLoaderIndex(ls, context, namespace), r, parent, selection)

\* resolve: (parent, _, context) => getDataLoader(context, namespace, ...).load(parent)
resolveField(g, r, context, parent, selection) ==
  resolveIn(g, getDataLoader(g.loaders, context,
                             namespaceOf(parent.type, Head(selection)), r),
            context, namespaceOf(parent.type, Head(selection)), r, parent, selection)

RECURSIVE resolveFields(_, _, _, _, _)
\* The field of every record of a list, one after the other in one tick.
resolveFields(g, r, context, parents, selection) ==
  IF parents = <<>> \/ selection = <<>> THEN g
  ELSE resolveFields(resolveField(g, r, context, Head(parents), selection),
                     r, context, Tail(parents), selection)

hasOneResult(record) == IF isNone(record) THEN <<>> ELSE <<identityOf(record)>>

\* q.findRelatedRecords(record, property) / q.findRelatedRecord(record, property)
related(d, key, property) ==
  IF RelationshipKind(key.type, property) = "hasMany"
  THEN identitiesOf(getRelatedRecordsAsync(d, key, property))
  ELSE hasOneResult(getRelatedRecordAsync(d, key, property))

RECURSIVE continueFields(_, _, _, _, _)
continueField(g, d, r, context, ready, w) ==
  continueFields(resolveFields(Graph(g.loaders, g.waiting \ {w}, g.used), r, context,
                               related(d, w.key, w.property), w.rest),
                 d, r, context, ready \ {w})

\* The fields whose promise has resolved go on: the fields selected below
\* them are resolved for every record of the result.
continueFields(g, d, r, context, ready) ==
  IF ready = {} THEN g
  ELSE continueField(g, d, r, context, ready, CHOOSE w \in ready : TRUE)

Query(r, namespace, key) == [request |-> r, namespace |-> namespace, key |-> key]

\* The batch function of the relationship resolvers:
\* records => Promise.all(records.map(record => source.query(...)))
batchLoadFn(loader, keys) ==
  [k \in 1..Len(keys) |-> Query(loader.createdBy, loader.namespace, keys[k])]

Batch(loader, keys, issued) == [loader |-> loader, keys |-> keys, queries |-> issued]

queuedKeys(loader) == {serializeRecordIdentity(loader.queue[k]) : k \in 1..Len(loader.queue)}

\* The keys handed to the batch function whose promise has not resolved.
loadingKeys(loader) == (loader.cache \ loader.loaded) \ queuedKeys(loader)

RECURSIVE maxContext(_, _)
maxContext(rs, r) ==
  IF r > MaxRequests THEN NoContext
  ELSE IF rs[r].context > maxContext(rs, r + 1) THEN rs[r].context
  ELSE maxContext(rs, r + 1)

\* One context object for every request.
contextFor_Shared(rs) == 1

\* context({ req }) { return { ...context, headers: req.headers } }: a new
\* object on every request.
contextFor(rs) == maxContext(rs, 1) + 1

\* The relationship fields a query selects below `planets`.
Selections == {<<"moons">>, <<"moons", "planet">>, <<"moons", "planet", "moons">>}

PlanetRows == {NoRow, Row("Earth", NullId)}
MoonRows == {NoRow} \cup {Row("Moon", fk) : fk \in 0..MaxId}

\* The tables the requests read.
GraphDBs ==
  {[t \in SchemaTypes |-> IF t = "planet" THEN ps ELSE ms] :
     ps \in [Ids -> PlanetRows], ms \in [Ids -> MoonRows]}

GraphInit ==
  /\ LoaderIdle
  /\ LinkIdle
  /\ activates = <<>>
  /\ ConnIdle
  /\ db \in GraphDBs
  /\ dbBefore = db
  /\ phase = "idle"
  /\ req = NoRequest
  /\ resp = NoResponse
  /\ updateCalls = <<>>
  /\ FeedIdle
  /\ ErrorIdle
  /\ QueryIdle
  /\ gets = <<>>
  /\ schema = StoreSchema
  /\ readonly = FALSE
  /\ routeTable = <<>>
  /\ built = FALSE
  /\ dispatched = "none"

graphRest == <<readonly, routeVars, serverVars, queryVars, errorVars, gets, feedVars, linkVars,
               activates, connVars>>

\* A GraphQL request arrives: its context is made and the root field
\* `planets` queries the source.
Receive(r) ==
  /\ requests[r].phase = "idle"
  /\ \E selection \in Selections :
       requests' = [requests EXCEPT ![r] = GraphRequest("root", contextFor(requests), selection)]
  /\ queries' = Append(queries, Query(r, "Query.planets", NullIdentity))
  /\ UNCHANGED <<loaders, waiting, batches, used, graphRest>>

Resolved(g) ==
  /\ loaders' = g.loaders
  /\ waiting' = g.waiting
  /\ used' = g.used

\* The root query resolves: the relationship field of every planet is resolved.
RootLoaded(r) ==
  /\ requests[r].phase = "root"
  /\ requests' = [requests EXCEPT ![r].phase = "resolving"]
  /\ Resolved(resolveFields(Graph(loaders, waiting, used), r, requests[r].context,
                            identitiesOf(getRecordsAsync(db, "planet")),
                            requests[r].selection))
  /\ UNCHANGED <<queries, batches, graphRest>>

\* DataLoader dispatches the queue of a loader to its batch function.
DispatchQueue(i) ==
  /\ loaders[i].queue # <<>>
  /\ queries' = queries \o batchLoadFn(loaders[i], loaders[i].queue)
  /\ batches' = Append(batches, Batch(i, loaders[i].queue,
                                      Len(batchLoadFn(loaders[i], loaders[i].queue))))
  /\ loaders' = [loaders EXCEPT ![i].queue = <<>>]
  /\ UNCHANGED <<requests, waiting, used, graphRest>>

\* The queries of the batches of a loader resolve.
BatchLoaded(i) ==
  /\ loadingKeys(loaders[i]) # {}
  /\ loaders' = [loaders EXCEPT ![i].loaded = @ \cup loadingKeys(loaders[i])]
  /\ UNCHANGED <<requests, waiting, queries, batches, used, graphRest>>

Ready(r) ==
  {w \in waiting :
     w.request = r /\ serializeRecordIdentity(w.key) \in loaders[w.loader].loaded}

\* The execution of a request goes on with the fields whose value arrived.
Continue(r) ==
  /\ Ready(r) # {}
  /\ Resolved(continueFields(Graph(loaders, waiting, used), db, r,
                             requests[r].context, Ready(r)))
  /\ UNCHANGED <<requests, queries, batches, graphRest>>

\* Every field has its value: the response is sent.
Respond(r) ==
  /\ requests[r].phase = "resolving"
  /\ \A w \in waiting : w.request # r
  /\ requests' = [requests EXCEPT ![r].phase = "responded"]
  /\ UNCHANGED <<loaders, waiting, queries, batches, used, graphRest>>

GraphNext ==
  \/ \E r \in GraphRequests : Receive(r) \/ RootLoaded(r) \/ Continue(r) \/ Respond(r)
  \/ \E i \in 1..Len(loaders) : DispatchQueue(i) \/ BatchLoaded(i)

SpecGraph == GraphInit /\ [][GraphNext]_vars

(***************************************************************************)
(*          Relationships with an inverse: foreign key and join table      *)
(***************************************************************************)

\* The hasMany relationships whose inverse is a hasMany: article.tags and
\* tag.articles.
ManyModel(relationship) == IF relationship = "tags" THEN "tag" ELSE "article"
ManyInverse(relationship) == IF relationship = "tags" THEN "articles" ELSE "tags"
ManyOwner(relationship) == ManyModel(ManyInverse(relationship))

\* foreignKey (inflected): the column of a relationship.
foreignKey(property) == property \o "_id"

JoinColumns == {foreignKey("tags"), foreignKey("articles")}

\* insert.push({ [from]: identity.id, [to]: id })
JoinRow(from, fromId, to, toId) ==
  [c \in {from, to} |-> IF c = from THEN fromId ELSE toId]

\* The join rows of a record written with the rows of the related
\* records deleted as well.
setJoinRows_ClearsRelated(j, id, from, to, identities) ==
  {row \in j : row[to] # id /\ row[from] \notin {x.id : x \in identities}}
  \cup {JoinRow(from, x.id, to, id) : x \in identities}

\* SQLCache.setRecordAsync, for a join table: the rows of the record are
\* deleted, one row per related identity is inserted.
setJoinRows(j, id, from, to, identities) ==
  {row \in j : row[to] # id}
  \cup {JoinRow(from, x.id, to, id) : x \in identities}

\* SQLCache.toProperties and setRecordAsync for a record that carries the
\* relationship: [foreignKey(property), foreignKey(inverse), data]
setJoinRelationship(j, record, relationship, identities) ==
  setJoinRows(j, record.id, foreignKey(relationship),
              foreignKey(ManyInverse(relationship)), identities)

\* SQLCache.getRelatedRecordsAsync, inverse hasMany: the target table joined
\* with the join table on foreignKey(relationship), where
\* foreignKey(inverse) is the id of the record.
relatedThroughJoin(j, identity, relationship) ==
  {Identity(ManyModel(relationship), row[foreignKey(relationship)]) :
     row \in {row \in j : row[foreignKey(ManyInverse(relationship))] = identity.id}}

\* The inverse operator of the operation exists: the operation changes
\* something.
joinHasInverse(j, o) ==
  CASE o.op = "addToRelatedRecords" ->
         ~(o.relatedRecords \subseteq relatedThroughJoin(j, o.record, o.relationship))
    [] o.op = "removeFromRelatedRecords" ->
         o.relatedRecords \subseteq relatedThroughJoin(j, o.record, o.relationship)
    [] o.op = "replaceRelatedRecords" ->
         o.relatedRecords # relatedThroughJoin(j, o.record, o.relationship)
    [] OTHER -> FALSE

\* The patch operator of the operation, on the join table.
joinOperator(j, o) ==
  CASE o.op = "addToRelatedRecords" ->
         setJoinRelationship(j, o.record, o.relationship,
                             relatedThroughJoin(j, o.record, o.relationship)
                               \cup o.relatedRecords)
    [] o.op = "removeFromRelatedRecords" ->
         setJoinRelationship(j, o.record, o.relationship,
                             relatedThroughJoin(j, o.record, o.relationship)
                               \ o.relatedRecords)
    [] OTHER -> setJoinRelationship(j, o.record, o.relationship, o.relatedRecords)

RECURSIVE inverseOps(_, _, _, _)
\* One operation on the inverse relationship of every record of a set.
inverseOps(op, records, relationship, record) ==
  IF records = {} THEN <<>>
  ELSE <<JoinOp(op, CHOOSE x \in records : TRUE, ManyInverse(relationship), {record})>>
       \o inverseOps(op, records \ {CHOOSE x \in records : TRUE}, relationship, record)

\* SchemaConsistencyProcessor.after: the operations that keep the inverse
\* relationship of the related records in step.
joinAfterOps(j, o) ==
  CASE o.op = "addToRelatedRecords" ->
         inverseOps("addToRelatedRecords", o.relatedRecords, o.relationship, o.record)
    [] o.op = "removeFromRelatedRecords" ->
         inverseOps("removeFromRelatedRecords", o.relatedRecords, o.relationship, o.record)
    [] OTHER ->
         inverseOps("removeFromRelatedRecords",
                    relatedThroughJoin(j, o.record, o.relationship) \ o.relatedRecords,
                    o.relationship, o.record)
         \o inverseOps("addToRelatedRecords",
                       o.relatedRecords \ relatedThroughJoin(j, o.record, o.relationship),
                       o.relationship, o.record)

RECURSIVE applyJoinOp(_, _)
RECURSIVE applyJoinOps(_, _)
\* AsyncRecordCache._applyPatchOperation on the join table: an operation
\* that changes nothing is skipped; otherwise it is applied and then the
\* operations prepared for the inverse side are.
applyJoinOp(j, o) ==
  IF ~joinHasInverse(j, o) THEN j
  ELSE applyJoinOps(joinOperator(j, o), joinAfterOps(j, o))

applyJoinOps(j, ops) ==
  IF ops = <<>> THEN j
  ELSE applyJoinOps(applyJoinOp(j, Head(ops)), Tail(ops))

Articles == {Identity("article", i) : i \in Ids}
Tags == {Identity("tag", i) : i \in Ids}

\* Relationship writes on articles and tags.
JoinOps ==
  {JoinOp(op, a, "tags", ts) :
     op \in {"addToRelatedRecords", "removeFromRelatedRecords"},
     a \in Articles, ts \in {{t} : t \in Tags}}
  \cup {JoinOp("replaceRelatedRecords", a, "tags", ts) : a \in Articles, ts \in SUBSET Tags}
  \cup {JoinOp("addToRelatedRecords", t, "articles", {a}) : t \in Tags, a \in Articles}

\* The rows the join table can hold.
JoinTables ==
  SUBSET {JoinRow(foreignKey("tags"), t, foreignKey("articles"), a) : t \in Ids, a \in Ids}

\* Writes that set the planet of a moon, from either side.
PlanetWrites ==
  {r \in RelationshipUpdateRequests : r.ref.type = "moon"}
  \cup {r \in RelationshipRequests : r.op \in {"replaceRelatedRecord", "addToRelatedRecords"}}

LinkInit ==
  /\ joins \in JoinTables
  /\ joinsBefore = joins
  /\ wrote = NoJoinOp
  /\ db \in GraphDBs
  /\ dbBefore = db
  /\ phase = "idle"
  /\ req = NoRequest
  /\ resp = NoResponse
  /\ updateCalls = <<>>
  /\ LoaderIdle
  /\ activates = <<>>
  /\ ConnIdle
  /\ FeedIdle
  /\ ErrorIdle
  /\ QueryIdle
  /\ gets = <<>>
  /\ schema = StoreSchema
  /\ readonly = FALSE
  /\ routeTable = <<>>
  /\ built = FALSE
  /\ dispatched = "none"

\* A request that writes the planet of a moon is processed.
WritePlanet ==
  /\ phase = "idle"
  /\ wrote = NoJoinOp
  /\ \E request \in PlanetWrites :
       Settle(request, processRequest(db, request, 1, TRUE))

\* A relationship of an article or a tag is written.
WriteTags ==
  /\ phase = "idle"
  /\ wrote = NoJoinOp
  /\ \E o \in JoinOps :
       /\ joins' = applyJoinOp(joins, o)
       /\ wrote' = o
  /\ joinsBefore' = joins
  /\ UNCHANGED <<readonly, routeVars, serverVars, queryVars, errorVars, gets,
                 feedVars, loaderVars, activates, connVars>>

\* The write on the join table has been answered.
TagsWritten ==
  /\ wrote # NoJoinOp
  /\ wrote' = NoJoinOp
  /\ joinsBefore' = joins
  /\ UNCHANGED <<joins, readonly, routeVars, serverVars, queryVars, errorVars, gets,
                 feedVars, loaderVars, activates, connVars>>

LinkNext == WritePlanet \/ WriteTags \/ Deliver \/ TagsWritten

SpecLinks == LinkInit /\ [][LinkNext]_vars

(***************************************************************************)
(*        Server.activate called more than once, and Server.deactivate     *)
(***************************************************************************)

\* Most calls of Server.activate().
MaxActivations == 2

\* No listener function is kept in this._listener.
NoListener == 0

\* this.source.on('transform', listener): every call of activate() declares
\* a function of its own, so the function of call k is attached beside the
\* functions attached before.
on(attached, k) == attached \cup {k}

\* this.source.off('transform', this._listener): the one function kept in
\* the field is removed.
off(attached, kept) == attached \ {kept}

RECURSIVE emitAll(_, _)
\* The 'transform' event: every attached function is called with the
\* transform.
emitAll(attached, operations) ==
  IF attached = {} THEN <<>>
  ELSE listener(operations)
       \o emitAll(attached \ {CHOOSE k \in attached : TRUE}, operations)

LifeInit ==
  /\ pubsub = TRUE
  /\ activated = "pending"
  /\ activating = "idle"
  /\ activates = <<>>
  /\ listeners = {}
  /\ _listener = NoListener
  /\ deactivated = FALSE
  /\ inflight = <<>>
  /\ transformLog = <<>>
  /\ rejected = <<>>
  /\ published = <<>>
  /\ LoaderIdle
  /\ LinkIdle
  /\ ConnIdle
  /\ ErrorIdle
  /\ QueryIdle
  /\ gets = <<>>
  /\ schema = StoreSchema
  /\ readonly = FALSE
  /\ routeTable = <<>>
  /\ built = FALSE
  /\ dispatched = "none"
  /\ ServerInit

lifeRest == <<readonly, routeVars, queryVars, errorVars, gets, loaderVars, linkVars, connVars,
              dbBefore, phase, req, resp, updateCalls, pubsub, activating>>

\* The source's activation settles.
SourceSettles ==
  /\ activated = "pending"
  /\ \E outcome \in {"resolved", "rejected"} : activated' = outcome
  /\ UNCHANGED <<activates, listeners, _listener, deactivated,
                 inflight, transformLog, rejected, published, db, lifeRest>>

\* Server.activate() is called once more and reaches
\* `await this.source.activated`.
ActivateCalled ==
  /\ Len(activates) < MaxActivations
  /\ activates' = Append(activates, "awaiting")
  /\ UNCHANGED <<activated, listeners, _listener, deactivated,
                 inflight, transformLog, rejected, published, db, lifeRest>>

\* The call k of Server.activate() goes on after the await.
ActivateResumed(k) ==
  /\ activates[k] = "awaiting"
  /\ activated # "pending"
  /\ IF activated = "rejected"
     THEN /\ activates' = [activates EXCEPT ![k] = "rejected"]
          /\ UNCHANGED <<listeners, _listener>>
     ELSE /\ activates' = [activates EXCEPT ![k] = "returned"]
          /\ listeners' = on(listeners, k)
          /\ _listener' = k
  /\ UNCHANGED <<activated, deactivated,
                 inflight, transformLog, rejected, published, db, lifeRest>>

\* Server.deactivate()
DeactivateCalled ==
  /\ ~deactivated
  /\ listeners' = IF _listener # NoListener THEN off(listeners, _listener) ELSE listeners
  /\ deactivated' = TRUE
  /\ UNCHANGED <<activated, activates, _listener,
                 inflight, transformLog, rejected, published, db, lifeRest>>

\* SQLSource._update up to `await this.cache.patch(...)`.
UpdateCalled ==
  /\ activated = "resolved"
  /\ ~deactivated
  /\ inflight = <<>>
  /\ Len(transformLog) + Len(rejected) < MaxTransforms
  /\ \E operations \in Transforms :
       /\ db' = sqlUpdate(db, operations).db
       /\ IF sqlUpdate(db, operations).error # NoError
          THEN /\ rejected' = Append(rejected, operations)
               /\ UNCHANGED inflight
          ELSE /\ inflight' = operations
               /\ UNCHANGED rejected
  /\ UNCHANGED <<activated, activates, listeners, _listener, deactivated,
                 transformLog, published, lifeRest>>

\* `await this.transformed([transform])`: the transform is logged and every
\* attached function is called.
TransformEmitted ==
  /\ inflight # <<>>
  /\ transformLog' = Append(transformLog, Transform(inflight, listeners # {}))
  /\ published' = published \o emitAll(listeners, inflight)
  /\ inflight' = <<>>
  /\ UNCHANGED <<activated, activates, listeners, _listener, deactivated,
                 rejected, db, lifeRest>>

LifeNext ==
  \/ SourceSettles
  \/ ActivateCalled
  \/ \E k \in 1..MaxActivations : k <= Len(activates) /\ ActivateResumed(k)
  \/ DeactivateCalled
  \/ UpdateCalled
  \/ TransformEmitted

SpecLifecycle == LifeInit /\ [][LifeNext]_vars

(***************************************************************************)
(*              SQLCache: openDB, closeDB, reopenDB, query, patch          *)
(***************************************************************************)

\* Most calls made on the cache.
MaxCalls == 3

Connection(state, tables) == [state |-> state, tables |-> tables]

\* What a call holds: its kind, where it stands, the connection it made
\* (`const db`), the connection its closeDB destroyed, what it returned and
\* the connection its query or patch ran on.
Call(kind, pc, made, closed, result, ran) ==
  [kind |-> kind, pc |-> pc, made |-> made, closed |-> closed,
   result |-> result, ran |-> ran]

Use(connection, state) == [connection |-> connection, state |-> state]

NoUse == Use(NoConnection, "none")

\* get isDBOpen(): !!this._db
isDBOpen(kept) == kept # NoConnection

\* The state of a connection, `none` for undefined.
stateOf(cs, n) == IF n = NoConnection THEN "none" ELSE cs[n].state

CallKinds == {"query", "patch", "openDB", "closeDB", "reopenDB"}

ConnInit ==
  /\ ConnIdle
  /\ LoaderIdle
  /\ LinkIdle
  /\ activates = <<>>
  /\ FeedIdle
  /\ ErrorIdle
  /\ QueryIdle
  /\ gets = <<>>
  /\ schema = StoreSchema
  /\ readonly = FALSE
  /\ routeTable = <<>>
  /\ built = FALSE
  /\ dispatched = "none"
  /\ ServerInit

connRest == <<readonly, routeVars, serverVars, queryVars, errorVars, gets, feedVars,
              loaderVars, linkVars, activates>>

\* A call starts: query, patch and openDB enter openDB; closeDB and
\* reopenDB (SQLSource.deactivate, SQLSource.upgrade) enter closeDB.
Called ==
  /\ Len(calls) < MaxCalls
  /\ \E kind \in CallKinds :
       calls' = Append(calls,
                       Call(kind,
                            IF kind \in {"closeDB", "reopenDB"} THEN "closeDB" ELSE "openDB",
                            NoConnection, NoConnection, NoUse, NoUse))
  /\ UNCHANGED <<_db, connections, connRest>>

\* closeDB(): if (this.isDBOpen) { await this._db.destroy() }.  The field
\* _db is left as it is.
closeDB(i) ==
  /\ calls[i].pc = "closeDB"
  /\ IF isDBOpen(_db)
     THEN /\ connections' = [connections EXCEPT ![_db].state = "destroyed"]
          /\ calls' = [calls EXCEPT ![i].pc = "destroying", ![i].closed = _db]
     ELSE /\ calls' = [calls EXCEPT ![i].pc = "destroying"]
          /\ UNCHANGED connections
  /\ UNCHANGED <<_db, connRest>>

\* closeDB() completes: the call is over, or reopenDB goes on with
\* `return this.openDB()`.
closedDB(i) ==
  /\ calls[i].pc = "destroying"
  /\ calls' = IF calls[i].kind = "closeDB"
              THEN [calls EXCEPT ![i].pc = "done",
                                 ![i].result = Use(_db, IF isDBOpen(_db) THEN "kept" ELSE "none")]
              ELSE [calls EXCEPT ![i].pc = "openDB"]
  /\ UNCHANGED <<_db, connections, connRest>>

\* openDB(): if (!this.isDBOpen) { const db = Knex(...); await
\* this.createDB(db) ... } return this._db
openDB(i) ==
  /\ calls[i].pc = "openDB"
  /\ IF isDBOpen(_db)
     THEN /\ calls' = [calls EXCEPT ![i].pc = "returned",
                                    ![i].result = Use(_db, stateOf(connections, _db))]
          /\ UNCHANGED connections
     ELSE /\ connections' = Append(connections, Connection("open", FALSE))
          /\ calls' = [calls EXCEPT ![i].pc = "createDB",
                                    ![i].made = Len(connections) + 1]
  /\ UNCHANGED <<_db, connRest>>

\* createDB(db) completes: this._db = db; return this._db
createdDB(i) ==
  /\ calls[i].pc = "createDB"
  /\ connections' = [connections EXCEPT ![calls[i].made].tables = TRUE]
  /\ _db' = calls[i].made
  /\ calls' = [calls EXCEPT ![i].pc = "returned",
                            ![i].result = Use(calls[i].made,
                                              connections[calls[i].made].state)]
  /\ UNCHANGED connRest

\* After `await this.openDB()`: super.query / super.patch run on this._db;
\* openDB and reopenDB hand their result to the caller.
returned(i) ==
  /\ calls[i].pc = "returned"
  /\ calls' = IF calls[i].kind \in {"query", "patch"}
              THEN [calls EXCEPT ![i].pc = "done",
                                 ![i].ran = Use(_db, stateOf(connections, _db))]
              ELSE [calls EXCEPT ![i].pc = "done"]
  /\ UNCHANGED <<_db, connections, connRest>>

ConnNext ==
  \/ Called
  \/ \E i \in 1..MaxCalls :
       /\ i <= Len(calls)
       /\ closeDB(i) \/ closedDB(i) \/ openDB(i) \/ createdDB(i) \/ returned(i)

SpecConnection == ConnInit /\ [][ConnNext]_vars

(***************************************************************************)
(*        GET /{type}/:id/{relationship} with filter and sort              *)
(***************************************************************************)

\* schema.getRelationship(type, relationship).model
relatedModel(type, relationship) ==
  CASE relationship = "moons" -> "moon"
    [] relationship = "planet" -> "planet"
    [] OTHER -> ManyModel(relationship)

\* queryBuilderParams(serializer, q.findRelatedRecords({ type, id },
\* relationship), type, filter, sort): the keys are checked against `of`.
relatedQueryBuilderParams(of, type, id, relationship, filter, sort) ==
  [op |-> "findRelatedRecords", record |-> Identity(type, id),
   relationship |-> relationship,
   filter |-> filterQBParams(of, filter), sort |-> sortQBParams(of, sort)]

\* The type the handler checks the keys against: the `type` of the request.
checkedAgainst(type, relationship) == type

\* findRelatedRecords(request, context) / handleFindRelatedRecords for a
\* request with filter and sort params; `records` are the related records
\* the store holds.
findRelatedRecordsWith(records, type, id, relationship, filter, sort) ==
  answered(records,
           relatedQueryBuilderParams(checkedAgainst(type, relationship),
                                     type, id, relationship, filter, sort))

\* The hasMany relationships of the schema.
HasManys ==
  {[type |-> "planet", relationship |-> "moons"],
   [type |-> "article", relationship |-> "tags"],
   [type |-> "tag", relationship |-> "articles"]}

\* The related records of the record asked for: moons and tags have a name,
\* articles have no attribute.
Named(type, id, name) == [type |-> type, id |-> id, name |-> name]
Unnamed(type, id) == [type |-> type, id |-> id]

RelatedTables ==
  {[k \in 1..n |-> IF type = "article" THEN Unnamed(type, k) ELSE Named(type, k, names[k])] :
     type \in {"moon", "tag", "article"}, n \in {MaxId},
     names \in [1..MaxId -> TextValues \cup {NoValue}]}

RelatedFilterKeys ==
  {[property |-> "name", value |-> Text(1)],
   [property |-> "name", value |-> Text(2)],
   [property |-> "description", value |-> Text(1)],
   [property |-> "foo", value |-> Text(1)]}

RelatedSortKeys == {"name", "-name", "description", "-description", "foo"}

RelatedFilters ==
  {f \in UNION {[1..n -> RelatedFilterKeys] : n \in 0..MaxFilters} :
     \A i, j \in 1..Len(f) : i # j => f[i].property # f[j].property}

RelatedSorts == UNION {[1..n -> RelatedSortKeys] : n \in 0..MaxSorts}

RelatedInit ==
  /\ typed \in RelatedTables
  /\ params = Params(<<>>, <<>>)
  /\ answer = NoAnswer
  /\ ErrorIdle
  /\ FeedIdle
  /\ OtherIdle
  /\ gets = <<>>
  /\ schema = StoreSchema
  /\ readonly = FALSE
  /\ routeTable = <<>>
  /\ built = FALSE
  /\ dispatched = "none"
  /\ ServerInit

\* GET /{type}/1/{relationship}?filter[..]=..&sort=..
FindRelatedMany ==
  /\ answer = NoAnswer
  /\ \E many \in HasManys, filter \in RelatedFilters, sort \in RelatedSorts :
       /\ typed[1].type = relatedModel(many.type, many.relationship)
       /\ params' = Params(filter, sort)
       /\ answer' = findRelatedRecordsWith(typed, many.type, 1, many.relationship,
                                           filter, sort)
  /\ UNCHANGED <<typed, readonly, routeVars, serverVars, errorVars, gets, feedVars, otherVars>>

RelatedNext == FindRelatedMany \/ FindManyDone

SpecRelated == RelatedInit /\ [][RelatedNext]_vars

(***************************************************************************)
(*                      Claims about the route table                       *)
(***************************************************************************)

MutationMethods == {"POST", "PATCH", "DELETE"}
FindHandlers ==
  {"handleFindRecords", "handleFindRecord", "handleFindRelatedRecords",
   "handleFindRelatedRecord"}

\* C1: a table built with readonly = true holds no POST/PATCH/DELETE route and
\* no '/operations' entry, its GET routes are exactly those of the writable
\* table of the same schema, and (the table being fixed at build time) every
\* request then dispatched reaches a find handler or no route at all.
C1_ReadonlyStripsMutations ==
  (built /\ readonly) =>
    /\ \A i \in 1..Len(routeTable) :
         /\ routeTable[i].prefix # "/operations"
         /\ \A k \in 1..Len(routeTable[i].routes) :
              routeTable[i].routes[k].method \notin MutationMethods
    /\ GetRegistrations(routeTable)
         = GetRegistrations(routeHandlers([schema |-> schema, readonly |-> FALSE]))
    /\ dispatched \in FindHandlers \cup {NotFound404, "none"}

C1_Witness ==
  /\ built /\ readonly
  /\ Len(schema) = 2
  /\ \E i \in 1..Len(schema) : Len(schema[i].relationships) = 2
  /\ dispatched = "handleFindRelatedRecords"

\* The routes of routeTable[i] bound to one relationship property.
RoutesOfRelationship(i, property) ==
  SelectSeq(routeTable[i].routes, LAMBDA r : r.params.relationship = property)

MethodUrls(routes) == { <<routes[k].method, routes[k].url>> : k \in 1..Len(routes) }

\* C7: in a writable table a hasMany relationship yields exactly
\* GET /:id/{property} (find-related-records) and POST, DELETE, PATCH on
\* /:id/relationships/{relationship}; a hasOne relationship yields exactly
\* GET /:id/{property} (find-related-record) and PATCH on
\* /:id/relationships/{relationship}, never POST or DELETE.
C7_RelationshipRoutes ==
  (built /\ ~readonly) =>
    \A i \in 1..Len(schema) : \A n \in 1..Len(schema[i].relationships) :
      LET rel == schema[i].relationships[n]
          type == schema[i].type
          routes == RoutesOfRelationship(i, rel.property)
          get == "/:id/" \o rel.property
          url == "/:id/relationships/" \o dasherize(rel.property)
          getRoutes == SelectSeq(routes, LAMBDA r : r.method = "GET")
      IN /\ routeTable[i].prefix = resourceType(type)
         /\ \A k \in 1..Len(routes) : routes[k].params.type = type
         /\ Len(getRoutes) = 1
         /\ IF rel.kind = "hasMany"
            THEN /\ Len(routes) = 4
                 /\ getRoutes[1].handler = "handleFindRelatedRecords"
                 /\ MethodUrls(routes)
                      = {<<"GET", get>>, <<"POST", url>>, <<"DELETE", url>>, <<"PATCH", url>>}
            ELSE /\ Len(routes) = 2
                 /\ getRoutes[1].handler = "handleFindRelatedRecord"
                 /\ MethodUrls(routes) = {<<"GET", get>>, <<"PATCH", url>>}

C7_Witness ==
  /\ built /\ ~readonly
  /\ \E i \in 1..Len(schema) :
       /\ Len(schema[i].relationships) = 2
       /\ schema[i].relationships[1].kind = "hasMany"
       /\ schema[i].relationships[1].property = "bestFriend"
       /\ schema[i].relationships[2].kind = "hasOne"
  /\ dispatched = "handleReplaceRelatedRecord"

(***************************************************************************)
(*                 Claims about the handlers and the source                *)
(***************************************************************************)

Responded == phase = "responded"

FindOps == {"findRecord", "findRecords", "findRelatedRecord", "findRelatedRecords"}

\* The answer a find-one request for (type, id) gets from the tables d.
FindOne(d, type, id) ==
  findRecord(d, Request("findRecord", type, id, NoRelationship, NoRecord, <<>>, <<>>)).response

\* C2: a Server configured with readonly = true never calls source.update:
\* whatever request processRequest or processBatchRequest is given, no
\* operation list reaches the source and the tables stay as they were, while
\* the find operations are answered.
C2_ReadonlyServerNeverUpdates ==
  (readonly /\ Responded) =>
    /\ updateCalls = <<>>
    /\ db = dbBefore
    /\ (req.op \in FindOps => resp.status # NoResponse.status)

BatchOperations == deserializeOperationsDocument(req.operations)

\* C3: when an operation of a batch request fails, the tables afterwards are
\* exactly the tables before the request: no operation of the batch, those
\* listed before the failing one included, remains applied.
C3_FailedBatchLeavesSourceUnchanged ==
  (Responded /\ req.op = "batch" /\ resp.error = "SchemaError") => db = dbBefore

\* C4: a batch request of n >= 1 operations that is answered 200 made exactly
\* one source.update call, with the n operations in request order, and its
\* body holds exactly n entries, entry i being the result of operation i (for
\* a removeRecord, the record removed).
C4_BatchAnswersOneEntryPerOperation ==
  (Responded /\ req.op = "batch" /\ resp.status = OkStatus) =>
    /\ updateCalls = <<BatchOperations>>
    /\ Len(resp.body) = Len(req.operations)
    /\ \A i \in 1..Len(req.operations) :
         req.operations[i].op \in {"addRecord", "removeRecord"} =>
           /\ resp.body[i].type = req.operations[i].record.type
           /\ resp.body[i].id = req.operations[i].record.id

\* The batch in progress adds record A and then refers to it: its second
\* operation adds A to a hasMany relationship of B or makes A the hasOne of B.
\* A is new: it has no row and no foreign key holds its id.
IsForwardReference ==
  /\ Responded /\ req.op = "batch" /\ Len(req.operations) = 2
  /\ BatchOperations[1].op = "addRecord"
  /\ BatchOperations[2].op \in {"addToRelatedRecords", "replaceRelatedRecord"}
  /\ BatchOperations[2].relatedRecord = identityOf(BatchOperations[1].record)
  /\ rowOf(dbBefore, identityOf(BatchOperations[1].record)) = NoRow
  /\ getRelatedRecordsAsync(dbBefore, identityOf(BatchOperations[1].record), "moons") = <<>>

RequestIdentities == deserializeIdentities(req.identities)

\* The position of the first identity whose update is rejected (its type is
\* no model of the schema), or one past the end when there is none.
FirstRejected ==
  IF \E k \in 1..Len(RequestIdentities) : ~hasModel(RequestIdentities[k].type)
  THEN CHOOSE k \in 1..Len(RequestIdentities) :
         /\ ~hasModel(RequestIdentities[k].type)
         /\ \A j \in 1..(k - 1) : hasModel(RequestIdentities[j].type)
  ELSE Len(RequestIdentities) + 1

RelatedNow(d) == IdentitySet(identitiesOf(getRelatedRecordsAsync(d, refIdentity(req), req.ref.relationship)))

\* C6: the relationship-add and relationship-remove handlers call
\* source.update once per identity, in request order, each with that one
\* operation; when the update for identity k is rejected, identities before k
\* stay applied, identity k and those after it are not applied, no further
\* update is issued and the request is answered with that error.
C6_RelationshipUpdatesOneByOne ==
  (Responded /\ req.op \in {"addToRelatedRecords", "removeFromRelatedRecords"}) =>
    /\ Len(updateCalls) = IF FirstRejected <= Len(RequestIdentities)
                          THEN FirstRejected ELSE Len(RequestIdentities)
    /\ \A j \in 1..Len(updateCalls) :
         updateCalls[j] = <<relationshipOp(req.op, req, RequestIdentities[j])>>
    /\ (FirstRejected <= Len(RequestIdentities) =>
          resp.status = BadRequest /\ resp.error = "SchemaError")
    /\ (FirstRejected > Len(RequestIdentities) => resp.status = NoContent)
    /\ \A j \in 1..Len(RequestIdentities) :
         LET applied == j < FirstRejected
             earlier == {RequestIdentities[i] : i \in 1..(FirstRejected - 1)}
         IN IF req.op = "addToRelatedRecords"
            THEN /\ (applied => RequestIdentities[j] \in RelatedNow(db))
                 /\ ((~applied /\ RequestIdentities[j] \notin RelatedNow(dbBefore)
                       /\ RequestIdentities[j] \notin earlier)
                      => RequestIdentities[j] \notin RelatedNow(db))
            ELSE /\ ((applied /\ rowOf(dbBefore, refIdentity(req)) # NoRow)
                      => RequestIdentities[j] \notin RelatedNow(db))
                 /\ ((~applied /\ RequestIdentities[j] \in RelatedNow(dbBefore)
                       /\ RequestIdentities[j] \notin earlier)
                      => RequestIdentities[j] \in RelatedNow(db))

C6_Witness ==
  /\ Responded /\ req.op = "addToRelatedRecords"
  /\ Len(RequestIdentities) = 2 /\ FirstRejected = 2
  /\ RequestIdentities[1] \notin RelatedNow(dbBefore)
  /\ RequestIdentities[1] \in RelatedNow(db)
  /\ Len(updateCalls) = 2
  /\ resp.status = BadRequest

\* C8: a create is answered 201 with the serialized record, its id included,
\* and a Location equal to the request URL, '/', and that id; a find-one for
\* that type and id then answers 200 with the attributes submitted.
C8_CreateAnswersCreated ==
  (Responded /\ req.op = "addRecord" /\ resp.error = NoError) =>
    /\ resp.status = Created
    /\ Len(resp.body) = 1
    /\ resp.body[1].type = req.record.type
    /\ resp.body[1].id \in Ids
    /\ (req.record.id # NullId => resp.body[1].id = req.record.id)
    /\ resp.location = req.url \o "/" \o ToString(resp.body[1].id)
    /\ FindOne(db, req.ref.type, resp.body[1].id).status = OkStatus
    /\ FindOne(db, req.ref.type, resp.body[1].id).body[1].name = req.record.name
    /\ FindOne(db, req.ref.type, resp.body[1].id).body[1].id = resp.body[1].id

C8_Witness ==
  /\ Responded /\ req.op = "addRecord"
  /\ req.record.id = NullId /\ req.record.name = "Earth"
  /\ resp.status = Created
  /\ resp.location = "/planets/2"

\* C9: a DELETE of an existing record is answered 204 with no body; a find-one
\* for its type and id then answers 404, and does so for as long as the
\* table holds no row of that id; a create of that type (under the same id
\* or a generated one) is answered 201.
C9_DeletedRecordIsNotFound ==
  /\ (Responded /\ req.op = "removeRecord" /\ rowOf(dbBefore, refIdentity(req)) # NoRow) =>
       /\ resp.status = NoContent
       /\ resp.body = <<>>
       /\ FindOne(db, req.ref.type, req.ref.id).status = NotFound
       /\ \A again \in AddRequests :
            again.ref.type = req.ref.type =>
              addRecord(db, again, req.ref.id).response.status = Created
  /\ \A t \in SchemaTypes, i \in Ids :
       (rowOf(db, Identity(t, i)) = NoRow) <=> (FindOne(db, t, i).status = NotFound)
  /\ (Responded /\ req.op = "findRecord") => resp = FindOne(dbBefore, req.ref.type, req.ref.id)

C9_Witness ==
  /\ Responded /\ req.op = "removeRecord"
  /\ rowOf(dbBefore, refIdentity(req)) # NoRow
  /\ dbBefore[req.ref.type][req.ref.id].name = "Mars"
  /\ resp.status = NoContent

\* C10: an update addressed to an id that has no record of that type is
\* answered 404 and creates no record.
C10_UpdateOfMissingRecordIsNotFound ==
  (Responded /\ req.op = "updateRecord" /\ rowOf(dbBefore, refIdentity(req)) = NoRow) =>
    /\ resp.status = NotFound
    /\ rowOf(db, refIdentity(req)) = NoRow
    /\ FindOne(db, req.ref.type, req.ref.id).status = NotFound

\* What a find-one of the record the request addresses shows, on the tables d.
Shown(d) == FindOne(d, req.ref.type, req.ref.id).body[1]

DeclaredKeys == {"some-text", "some-number"}

DeclaredFilter(filter) == SelectSeq(filter, LAMBDA f : f.property \in DeclaredKeys)

DeclaredSort(sort) ==
  SelectSeq(sort, LAMBDA key : key \in DeclaredKeys \/ substring1(key) \in DeclaredKeys)

AnswerIds == {answer.data[i].id : i \in 1..Len(answer.data)}

\* The record's attribute has the value the filter key gives: the text for a
\* string attribute, the number written by the text for a number attribute.
HasGivenValue(record, f) ==
  /\ attributeOf(record, camelize(f.property)) # NoValue
  /\ attributeOf(record, camelize(f.property)).v = f.value.v

\* C12: a find-many with filter[attr]=value on declared attributes returns
\* exactly the records whose every filtered attribute equals the value given
\* (filters combined with AND): none that matches is left out, none that
\* does not match is returned.
C12_FilterReturnsExactlyTheMatches ==
  answer.status = OkStatus =>
    AnswerIds = {typed[i].id : i \in {k \in 1..Len(typed) :
                   \A n \in 1..Len(DeclaredFilter(params.filter)) :
                     HasGivenValue(typed[k], DeclaredFilter(params.filter)[n])}}

\* Record a must come before record b: on the first sort key where the two
\* differ (both having a value), a is the smaller for an ascending key, the
\* larger for a descending one.
MustPrecede(a, b, sort) ==
  \E k \in 1..Len(sort) :
    /\ \A m \in 1..(k - 1) :
         /\ attributeOf(a, sortAttribute("typedModel", sort[m])) # NoValue
         /\ attributeOf(a, sortAttribute("typedModel", sort[m]))
              = attributeOf(b, sortAttribute("typedModel", sort[m]))
    /\ attributeOf(a, sortAttribute("typedModel", sort[k])) # NoValue
    /\ attributeOf(b, sortAttribute("typedModel", sort[k])) # NoValue
    /\ IF startsWithDash(sort[k])
       THEN attributeOf(a, sortAttribute("typedModel", sort[k])).v
              > attributeOf(b, sortAttribute("typedModel", sort[k])).v
       ELSE attributeOf(a, sortAttribute("typedModel", sort[k])).v
              < attributeOf(b, sortAttribute("typedModel", sort[k])).v

\* C13: a find-many with sort=k1,k2,... returns the records ordered by the
\* declared keys in the listed priority, ascending for a bare key, descending
\* for a key prefixed with '-'; the specifiers handed to the source follow the
\* order of the keys in the query; without a filter every record of the type
\* is returned, once, whatever the order of the rows.
C13_SortOrdersByTheKeysInOrder ==
  answer.status = OkStatus =>
    /\ Len(answer.expression.sort) = Len(DeclaredSort(params.sort))
    /\ \A k \in 1..Len(answer.expression.sort) :
         /\ answer.expression.sort[k].attribute
              = sortAttribute("typedModel", DeclaredSort(params.sort)[k])
         /\ answer.expression.sort[k].order
              = (IF startsWithDash(DeclaredSort(params.sort)[k])
                 THEN "descending" ELSE "ascending")
    /\ \A i, j \in 1..Len(answer.data) :
         i < j => ~MustPrecede(answer.data[j], answer.data[i], DeclaredSort(params.sort))
    /\ Cardinality(AnswerIds) = Len(answer.data)
    /\ (DeclaredFilter(params.filter) = <<>> =>
          AnswerIds = {typed[i].id : i \in 1..Len(typed)})

C13_Witness ==
  /\ answer.status = OkStatus
  /\ Len(typed) = 3
  /\ params.filter = <<>>
  /\ params.sort = <<"some-number", "-some-text">>
  /\ typed[1].someNumber = Number(2) /\ typed[2].someNumber = Number(1)
  /\ typed[3].someNumber = Number(1)
  /\ typed[2].someText = Text(1) /\ typed[3].someText = Text(2)
  /\ answer.data[1].id = 3 /\ answer.data[2].id = 2 /\ answer.data[3].id = 1

\* C14: a filter or sort key that names no declared attribute is dropped
\* without an error: the answer is the answer to the same request without
\* that key, only specifiers of declared attributes are handed to the source,
\* and a filter of unknown keys alone returns every record of the type.
C14_UnknownKeysAreDropped ==
  answer.status = OkStatus =>
    /\ answer = findRecordsWith(typed, "typedModel",
                                DeclaredFilter(params.filter), DeclaredSort(params.sort))
    /\ Len(answer.expression.filter) = Len(DeclaredFilter(params.filter))
    /\ \A k \in 1..Len(answer.expression.filter) :
         answer.expression.filter[k].attribute \in {"someText", "someNumber"}
    /\ \A k \in 1..Len(answer.expression.sort) :
         answer.expression.sort[k].attribute \in {"someText", "someNumber"}
    /\ (DeclaredFilter(params.filter) = <<>> => Len(answer.data) = Len(typed))

C14_Witness ==
  /\ answer.status = OkStatus
  /\ Len(typed) = 3
  /\ params.filter = <<[property |-> "foo", value |-> Text(1)]>>
  /\ params.sort = <<"-foo", "-some-text">>
  /\ Len(answer.data) = 3
  /\ answer.expression.filter = <<>>
  /\ Len(answer.expression.sort) = 1

(***************************************************************************)
(*       Claims about the error translator and about repeated reads        *)
(***************************************************************************)

\* The pairs of find-one requests for the same type and id, the second later
\* than the first, with no write in between.
RepeatedGets ==
  {<<i, j>> \in (1..Len(gets)) \X (1..Len(gets)) :
     i < j /\ gets[i].type = gets[j].type /\ gets[i].id = gets[j].id}

\* C15 as stated: two find-one requests for the same type and id with no
\* write between them get the same status and identical bodies, for every id.
C15_RepeatedGetIsIdentical ==
  \A pair \in RepeatedGets : gets[pair[1]].response = gets[pair[2]].response

\* An errors document with the generated id of its entries left out.
WithoutErrorIds(errors) == [k \in 1..Len(errors) |-> [errors[k] EXCEPT !.id = 0]]

\* C15 amended: two find-one requests for the same type and id with no write
\* between them get the same status; for the id of a stored record the bodies
\* are identical, for an id with no record both are 404 and the errors
\* documents are identical except for the generated id of the entry.
C15_RepeatedGetIsIdenticalButForErrorId ==
  \A pair \in RepeatedGets :
    /\ gets[pair[1]].response.status = gets[pair[2]].response.status
    /\ gets[pair[1]].response.body = gets[pair[2]].response.body
    /\ WithoutErrorIds(gets[pair[1]].response.errors)
         = WithoutErrorIds(gets[pair[2]].response.errors)
    /\ (rowOf(db, Identity(gets[pair[1]].type, gets[pair[1]].id)) # NoRow =>
          /\ gets[pair[1]].response = gets[pair[2]].response
          /\ gets[pair[1]].response.status = OkStatus)
    /\ (rowOf(db, Identity(gets[pair[1]].type, gets[pair[1]].id)) = NoRow =>
          gets[pair[1]].response.status = NotFound)

C15_Witness ==
  /\ Len(gets) = 2
  /\ RepeatedGets = {<<1, 2>>}
  /\ gets[1].type = "planet"
  /\ gets[1].response.status = OkStatus
  /\ gets[1].response.body[1].name = "Mars"
  /\ gets[2].response = gets[1].response

Translated == translated # NoTranslation /\ translated.threw = "none"

NotFoundClasses == {"RecordNotFoundException"}
UpstreamClasses == {"ClientError", "ServerError"}
BadRequestClasses == {"SchemaError", "ModelNotFound", "RecordException"}

\* C16: the translator answers a record-not-found error with 404, an upstream
\* ClientError / ServerError with the status of the error's response, a
\* SchemaError or another RecordException with 400, every other error with
\* 500; the status of the response is the code of its error entry.
C16_ErrorStatusMapping ==
  Translated =>
    /\ translated.status =
         (IF raised.class \in NotFoundClasses THEN NotFound
          ELSE IF raised.class \in UpstreamClasses THEN raised.response
          ELSE IF raised.class \in BadRequestClasses THEN BadRequest
          ELSE InternalServerError)
    /\ \A k \in 1..Len(translated.errors) : translated.errors[k].code = translated.status

C16_Witness ==
  /\ Translated
  /\ raised.class = "RecordNotFoundException"
  /\ translated.status = NotFound
  /\ translated.errors[1].code = NotFound

C18_ClearRejectionIsSwallowed ==
  translated # NoTranslation =>
    /\ cleared \in {"resolved", "rejected"}
    /\ \E id \in ErrorIds : translated = translate(raised, id, "resolved")
    /\ translated.threw # "Error"

C18_Witness ==
  /\ Translated
  /\ cleared = "rejected"
  /\ raised.class = "ServerError"
  /\ translated.status = 503
  /\ translated.errors[1].detail = "description"

(***************************************************************************)
(*                     Claims about the change feed                        *)
(***************************************************************************)

\* C19: the listener is attached to the source's 'transform' event only
\* after the source's activated promise has resolved, and on shutdown it is
\* detached before source.deactivate() is invoked: at the invocation no
\* listener of the server is attached.
C19_ListenerAttachedAndDetachedInOrder ==
  [][/\ ("listener" \in listeners' /\ "listener" \notin listeners) => activated = "resolved"
     /\ (deactivated' /\ ~deactivated) => "listener" \notin listeners']_vars

C19_Witness ==
  /\ pubsub
  /\ activating = "returned"
  /\ _listener
  /\ deactivated
  /\ listeners = {}
  /\ \E k \in 1..Len(transformLog) : transformLog[k].heard

RECURSIVE ExpectedPublishes(_)
\* One publish per operation of every transform the listener heard, in the
\* order of the transforms and of their operations.
ExpectedPublishes(log) ==
  IF log = <<>> THEN <<>>
  ELSE (IF Head(log).heard
        THEN [k \in 1..Len(Head(log).operations) |->
                Publish(IF Head(log).operations[k].record.type = "planet"
                        THEN "operation:planet" ELSE "operation:moon",
                        Head(log).operations[k])]
        ELSE <<>>)
       \o ExpectedPublishes(Tail(log))

\* C20: while the listener is attached, every transform event the source
\* emits causes exactly one publish per operation of the transform, in the
\* transform's order, on the channel 'operation:<record type>'; nothing is
\* published for a transform whose application to the store failed.
C20_OnePublishPerOperation ==
  /\ published = ExpectedPublishes(transformLog)
  /\ (transformLog = <<>> => published = <<>>)
  /\ \A r \in 1..Len(rejected), k \in 1..Len(published) :
       \A i \in 1..Len(rejected[r]) :
         published[k].operation = rejected[r][i] =>
           \E t \in 1..Len(transformLog) :
             /\ transformLog[t].heard
             /\ \E j \in 1..Len(transformLog[t].operations) :
                  transformLog[t].operations[j] = rejected[r][i]

C20_Witness ==
  /\ Len(published) = 2
  /\ published[1].channel = "operation:planet"
  /\ published[2].channel = "operation:moon"
  /\ Len(transformLog) = 1
  /\ rejected # <<>>

(***************************************************************************)
(*                 Claims about the GraphQL loaders                        *)
(***************************************************************************)

\* C21: under every interleaving of concurrent GraphQL requests, a loader
\* made while one request is resolved never resolves a field of another
\* request; every request has a context of its own, and within one context
\* a namespace has at most one loader.
C21_LoadersAreNotShared ==
  /\ \A u \in used :
       /\ loaders[u[2]].createdBy = u[1]
       /\ loaders[u[2]].context = requests[u[1]].context
  /\ \A r1 \in GraphRequests, r2 \in GraphRequests :
       (r1 # r2 /\ requests[r1].context # NoContext) =>
         requests[r1].context # requests[r2].context
  /\ \A i \in 1..Len(loaders), j \in 1..Len(loaders) :
       (loaders[i].context = loaders[j].context
        /\ loaders[i].namespace = loaders[j].namespace) => i = j

C21_Witness ==
  /\ \A r \in GraphRequests : requests[r].phase = "resolving"
  /\ \E i \in 1..Len(loaders), j \in 1..Len(loaders) :
       /\ loaders[i].namespace = "Moon.planet"
       /\ loaders[j].namespace = "Moon.planet"
       /\ loaders[i].createdBy = 1
       /\ loaders[j].createdBy = 2
       /\ loaders[i].queue # <<>>
       /\ loaders[j].loaded # {}

\* C22: the parents collected in one batch of a loader are served by one
\* query to the source, not by one query per parent.
C22_OneQueryPerBatch ==
  \A b \in 1..Len(batches) : batches[b].queries = 1

QueriesOf(r) == {k \in 1..Len(queries) : queries[k].request = r}

PlanetsStored == {i \in Ids : db["planet"][i] # NoRow}

MoonsHeld ==
  {i \in Ids : db["moon"][i] # NoRow /\ db["moon"][i].planet_id \in PlanetsStored}

\* C23: a request for planets { moons { planet ... } } over N planets
\* holding M moons issues at most 1 + N + M source queries, and within one
\* request the same relationship of the same parent is queried at most once.
C23_QueriesAreBounded ==
  \A r \in GraphRequests :
    /\ Cardinality(QueriesOf(r)) <= 1 + Cardinality(PlanetsStored) + Cardinality(MoonsHeld)
    /\ \A k1 \in QueriesOf(r), k2 \in QueriesOf(r) :
         queries[k1] = queries[k2] => k1 = k2

C23_Witness ==
  /\ requests[1].phase = "responded"
  /\ requests[1].selection = <<"moons", "planet", "moons">>
  /\ requests[2].phase = "idle"
  /\ Cardinality(PlanetsStored) = 2
  /\ Cardinality(MoonsHeld) = 2
  /\ Cardinality(QueriesOf(1)) = 5

(***************************************************************************)
(*                 Claims about the where argument                         *)
(***************************************************************************)

WhereAttribute(key) ==
  IF key \in {"someText", "someText_not", "someText_in", "someText_not_in"}
  THEN "someText" ELSE "someNumber"

Among(value, list) == \E n \in 1..Len(list) : list[n] = value

\* What one operator of a where object asks of a record.
Satisfies(record, pair) ==
  CASE pair.key \in {"id", "id_in"} -> Among(Id(record.id), pair.value)
    [] pair.key \in {"someText", "someNumber", "someText_in"} ->
         Among(attributeOf(record, WhereAttribute(pair.key)), pair.value)
    [] OTHER -> ~Among(attributeOf(record, WhereAttribute(pair.key)), pair.value)

\* C24: the plural query field returns exactly the records that satisfy
\* every operator of its where argument: attr, attr_not, attr_in,
\* attr_not_in, id and id_in.
C24_WhereReturnsExactlyTheMatches ==
  (answer # NoAnswer /\ answer.expression.op = "findRecords") =>
    {answer.data[k].id : k \in 1..Len(answer.data)}
      = {typed[i].id : i \in {i \in 1..Len(typed) :
                                \A k \in 1..Len(params.filter) :
                                  Satisfies(typed[i], params.filter[k])}}

(***************************************************************************)
(*            Claims about relationships with an inverse                   *)
(***************************************************************************)

\* The ids a read of planet.moons answers with.
MoonsRead(d, planet) ==
  {findRelatedRecords(d, Request("findRelatedRecords", "planet", planet, "moons",
                                 NoRecord, <<>>, <<>>)).response.body[k].id :
     k \in 1..Len(findRelatedRecords(d, Request("findRelatedRecords", "planet", planet,
                                                "moons", NoRecord, <<>>, <<>>)).response.body)}

\* The last request set moon.planet = planet and was answered without error.
SetsPlanet(moon, planet) ==
  /\ phase = "responded"
  /\ resp.error = NoError
  /\ req.ref.type = "moon"
  /\ req.ref.id = moon
  /\ \/ req.op = "updateRecord" /\ req.record.planet = Identity("planets", planet)
     \/ req.op = "replaceRelatedRecord" /\ req.identities = <<Identity("planets", planet)>>

\* The last write put `target` into the relationship of `record`.
PutsInto(record, target) ==
  /\ wrote.op \in {"addToRelatedRecords", "replaceRelatedRecords"}
  /\ wrote.record = record
  /\ target \in wrote.relatedRecords

\* C25: after a write that sets moon.planet = earth a read of earth.moons
\* includes the moon; after a write that puts a tag into article.tags a read
\* of tag.articles includes the article; the links of other records to the
\* same target are still there after the write.
C25_InverseRelationshipsStayInStep ==
  /\ \A moon \in Ids, planet \in Ids :
       SetsPlanet(moon, planet) =>
         /\ moon \in MoonsRead(db, planet)
         /\ MoonsRead(dbBefore, planet) \subseteq MoonsRead(db, planet)
  /\ \A record \in Articles \cup Tags, target \in Articles \cup Tags :
       PutsInto(record, target) =>
         /\ record \in relatedThroughJoin(joins, target, ManyInverse(wrote.relationship))
         /\ relatedThroughJoin(joinsBefore, target, ManyInverse(wrote.relationship))
              \ {record}
              \subseteq relatedThroughJoin(joins, target, ManyInverse(wrote.relationship))

C25_Witness ==
  /\ PutsInto(Identity("article", 2), Identity("tag", 1))
  /\ wrote.op = "addToRelatedRecords"
  /\ relatedThroughJoin(joins, Identity("tag", 1), "articles") = Articles
  /\ relatedThroughJoin(joinsBefore, Identity("tag", 1), "articles") = {Identity("article", 1)}


(***************************************************************************)
(*               Claims about repeated activation                          *)
(***************************************************************************)

\* C26: for every sequence of activate() and deactivate() calls, activate()
\* called twice included, at most one listener of the server is attached to
\* the source, none is attached once deactivate() has returned, and no
\* operation is published twice.
C26_AtMostOneListener ==
  /\ Cardinality(listeners) <= 1
  /\ deactivated => listeners = {}
  /\ published = ExpectedPublishes(transformLog)

(***************************************************************************)
(*               Claims about the connection of the SQL cache              *)
(***************************************************************************)

\* C27: after closeDB() completes isDBOpen is false; reopenDB() returns a
\* newly made, open connection and not the one it destroyed; no query or
\* patch runs on a destroyed connection.
C27_ConnectionLifecycle ==
  \A i \in 1..Len(calls) :
    /\ (calls[i].kind = "closeDB" /\ calls[i].pc = "done")
         => calls[i].result.state = "none"
    /\ (calls[i].kind = "reopenDB" /\ calls[i].pc = "done")
         => /\ calls[i].result.state = "open"
            /\ calls[i].result.connection # calls[i].closed
    /\ calls[i].ran.state # "destroyed"

\* The calls made so far all open the connection.
OnlyOpens == \A i \in 1..Len(calls) : calls[i].kind \in {"query", "patch", "openDB"}

\* C28: when several query, patch or openDB calls start while no connection
\* is open, one connection is made and its tables are created once, and no
\* call is left with a connection other than the one the cache keeps.
C28_OneConnectionForConcurrentCalls ==
  OnlyOpens =>
    /\ Len(connections) <= 1
    /\ \A i \in 1..Len(calls) :
         calls[i].pc = "done" =>
           /\ calls[i].result.connection = _db
           /\ calls[i].kind \in {"query", "patch"} => calls[i].ran.connection = _db

(***************************************************************************)
(*          Claims about filter and sort on related records                *)
(***************************************************************************)

\* C29: for GET /{type}/:id/{hasMany relationship} with filter or sort
\* parameters the keys are checked against the attributes of the related
\* model: a key naming an attribute of the target type is applied, a key
\* that names none is dropped.
C29_RelatedKeysCheckedAgainstTarget ==
  answer # NoAnswer =>
    /\ answer.expression.filter
         = filterQBParams(relatedModel(answer.expression.record.type,
                                       answer.expression.relationship),
                          params.filter)
    /\ answer.expression.sort
         = sortQBParams(relatedModel(answer.expression.record.type,
                                     answer.expression.relationship),
                        params.sort)

(***************************************************************************)
(*               Claims about the records the store returns                *)
(***************************************************************************)

\* C30: every record the SQL store returns has, for a hasOne relationship
\* that is unset in the store, data null or no entry, never an identity
\* whose id is null; every identity returned carries a non-null id of the
\* declared target type.
C30_ReturnedIdentitiesAreWhole ==
  \A type \in {"planet", "moon"}, id \in Ids :
    getRecordAsync(db, Identity(type, id)) # NoRecord =>
      \/ getRecordAsync(db, Identity(type, id)).planet \in {AbsentRel, NullIdentity}
      \/ /\ getRecordAsync(db, Identity(type, id)).planet.id # NullId
         /\ getRecordAsync(db, Identity(type, id)).planet.type = "planet"

====
